---------------------------- MODULE Spec2Model ----------------------------
(***************************************************************************)
(* A model of the ProyectoDiorama ray tracer: the orbit camera             *)
(* (camera.rs), the ray/box intersection (cube.rs, ray_intersect.rs), the  *)
(* material colour lookup (material.rs, texture_manager.rs) and the        *)
(* recursive light transport cast_ray / cast_shadow (main.rs).             *)
(*                                                                         *)
(* Numbers.  An f32 is modelled as a fixed-point integer counting units of *)
(* 1e-4 (Scale units make 1.0), so that ORIGIN_BIAS and the face epsilon   *)
(* of cube.rs are exactly one unit.  Every product and quotient rounds to  *)
(* the nearest unit, as an f32 operation rounds to the nearest float.  The *)
(* IEEE values +inf, -inf, NaN and -0.0 are four values outside the finite *)
(* range, and the F* operators below give them their IEEE behaviour.       *)
(***************************************************************************)
EXTENDS Integers, Sequences, FiniteSets, TLC

VARIABLES
    mode,      \* which part of the program this behaviour exercises
    camera,    \* Camera { eye, center, up, forward, right }
    camLog,    \* the last camera call and its arguments, and the call count
    probe,     \* one Cube::ray_intersect or cast_shadow call and its result
    shade,     \* one Material::color_at call: material, registry, result
    scene,     \* objects, light and texture registry of a cast_ray run
    stack,     \* the cast_ray activation records, innermost last
    trace,     \* what the cast_ray run has done so far (counters, result)
    loop,      \* main's frame loop: where it is, the keys held, the counts
    workers,   \* the parallel pixel map of render: tasks and collected pairs
    framebuffer \* the pixel colors and how often each pixel was written

vars == <<mode, camera, camLog, probe, shade, scene, stack, trace, loop, workers,
          framebuffer>>

-----------------------------------------------------------------------------
(* Fixed-point numbers *)

Scale == 10000
ORIGIN_BIAS == 1
EPSILON == 1

PInf == 1000000000
NInf == 0 - PInf
NaN == 2000000000
NegZero == 1999999999

IsFinite(a) == a > NInf /\ a < PInf

Abs(a) == IF a < 0 THEN 0 - a ELSE a

Sign(a) == IF a < 0 THEN 0 - 1 ELSE IF a > 0 THEN 1 ELSE 0

\* a / b rounded to the nearest integer, halves away from zero (b # 0).
RDiv(a, b) ==
    LET n == Abs(a)
        d == Abs(b)
        q == (n \div d) + (IF n % d >= d - (n % d) THEN 1 ELSE 0)
    IN  IF Sign(a) * Sign(b) < 0 THEN 0 - q ELSE q

\* -0.0 counts as 0 everywhere but in 1.0 / x.
Z(a) == IF a = NegZero THEN 0 ELSE a

FNeg(a) ==
    IF a = NaN THEN NaN
    ELSE IF a = NegZero THEN 0
    ELSE 0 - a

AddFn[arg \in Int \X Int] ==
    LET
        a0 == arg[1]
        b0 == arg[2]
    IN
        LET a == Z(a0)
            b == Z(b0)
        IN  IF a = NaN \/ b = NaN THEN NaN
            ELSE IF a = PInf THEN (IF b = NInf THEN NaN ELSE PInf)
            ELSE IF a = NInf THEN (IF b = PInf THEN NaN ELSE NInf)
            ELSE IF b = PInf \/ b = NInf THEN b
            ELSE a + b

FAdd(a0, b0) == AddFn[<<a0, b0>>]

FSub(a, b) == FAdd(a, FNeg(b))

\* |a| * |b| / Scale rounded to the nearest unit, for a, b >= 0.  The larger
\* operand is split in two limbs so that no intermediate product leaves the
\* 32-bit range the model checker computes in.
MulMag(a, b) ==
    LET big == IF a < b THEN b ELSE a
        small == IF a < b THEN a ELSE b
    IN  (big \div Scale) * small + RDiv((big % Scale) * small, Scale)

MulFn[arg \in Int \X Int] ==
    LET
        a0 == arg[1]
        b0 == arg[2]
    IN
        LET a == Z(a0)
            b == Z(b0)
        IN  IF a = NaN \/ b = NaN THEN NaN
            ELSE IF ~IsFinite(a) \/ ~IsFinite(b)
                 THEN (IF a = 0 \/ b = 0 THEN NaN
                       ELSE IF Sign(a) * Sign(b) > 0 THEN PInf ELSE NInf)
            ELSE Sign(a) * Sign(b) * MulMag(Abs(a), Abs(b))

FMul(a0, b0) == MulFn[<<a0, b0>>]

\* a * Scale / b rounded to the nearest unit, for a >= 0, b > 0, by long
\* division in two steps of 100.
DivMag(a, b) ==
    LET r1 == a % b
        r2 == (r1 * 100) % b
    IN  (a \div b) * Scale + ((r1 * 100) \div b) * 100 + RDiv(r2 * 100, b)

DivFn[arg \in Int \X Int] ==
    LET
        a0 == arg[1]
        b0 == arg[2]
    IN
        LET a == Z(a0)
            b == Z(b0)
        IN  IF a = NaN \/ b = NaN THEN NaN
            ELSE IF ~IsFinite(a)
                 THEN (IF ~IsFinite(b) THEN NaN
                       ELSE IF Sign(a) * (IF b0 = NegZero \/ b < 0 THEN 0 - 1 ELSE 1) > 0
                            THEN PInf ELSE NInf)
            ELSE IF ~IsFinite(b) THEN 0
            ELSE IF b = 0
                 THEN (IF a = 0 THEN NaN
                       ELSE IF (a > 0) = (b0 # NegZero) THEN PInf ELSE NInf)
            ELSE Sign(a) * Sign(b) * DivMag(Abs(a), Abs(b))

FDiv(a0, b0) == DivFn[<<a0, b0>>]

FAbs(a) == IF a = NaN THEN NaN ELSE Abs(Z(a))

\* The IEEE comparisons: every comparison with NaN is false.
FLt(a, b) == a # NaN /\ b # NaN /\ Z(a) < Z(b)

FGt(a, b) == FLt(b, a)

\* f32::max and f32::min return the other operand when one is NaN.
FMax(a, b) == IF a = NaN THEN b ELSE IF b = NaN THEN a ELSE IF Z(a) < Z(b) THEN b ELSE a

FMin(a, b) == IF a = NaN THEN b ELSE IF b = NaN THEN a ELSE IF Z(b) < Z(a) THEN b ELSE a

\* f32::clamp(lo, hi): NaN stays NaN.
FClamp(a, lo, hi) ==
    IF a = NaN THEN NaN
    ELSE IF FLt(a, lo) THEN lo
    ELSE IF FGt(a, hi) THEN hi
    ELSE a

\* Squares and sums of squares leave the 32-bit range, so they are kept as
\* two limbs <<hi, lo>> of value hi * Limb + lo, 0 <= lo < Limb.
Limb == 1000 * 1000

LimbNorm(hi, lo) == <<hi + lo \div Limb, lo % Limb>>

\* n * n for 0 <= n < 4000000.
LimbSquare(n) ==
    LET a == n \div 1000
        b == n % 1000
        c == 2 * a * b
    IN  LimbNorm(a * a + c \div 1000, (c % 1000) * 1000 + b * b)

LimbAdd(p, q) == LimbNorm(p[1] + q[1], p[2] + q[2])

LimbLeq(p, q) == p[1] < q[1] \/ (p[1] = q[1] /\ p[2] <= q[2])

\* The largest digit j of 0..15 with (lo + j * step)^2 <= n.
SqrtDigit(n, lo, step) ==
    CHOOSE j \in 0..15 :
        /\ LimbLeq(LimbSquare(lo + j * step), n)
        /\ (j = 15 \/ ~LimbLeq(LimbSquare(lo + (j + 1) * step), n))

\* floor(sqrt(n)) for a two-limb n, one base-16 digit at a time from the
\* digit worth step down.
RECURSIVE SqrtSearch(_, _, _)
SqrtSearch(n, lo, step) ==
    IF step = 0 THEN lo
    ELSE SqrtSearch(n, lo + SqrtDigit(n, lo, step) * step, step \div 16)

\* sqrt(n) rounded to the nearest integer: r + 1 when n > r * r + r.
LimbSqrtFn[n \in Int \X Int] ==
    LET r == SqrtSearch(n, 0, 1048576)
    IN  IF LimbLeq(n, LimbAdd(LimbSquare(r), <<0, r>>)) THEN r ELSE r + 1

LimbSqrt(n) == LimbSqrtFn[n]

\* f32::sqrt of a fixed-point value a >= 0: sqrt(a / Scale) * Scale.
FSqrt(a) ==
    IF a = NaN \/ FLt(a, 0) THEN NaN
    ELSE IF a = PInf THEN PInf
    ELSE LimbSqrt(LimbNorm((Z(a) \div 100) , (Z(a) % 100) * Scale))

-----------------------------------------------------------------------------
(* Vector3 *)

Vec(x, y, z) == [x |-> x, y |-> y, z |-> z]

VZero == Vec(0, 0, 0)

VAdd(a, b) == Vec(FAdd(a.x, b.x), FAdd(a.y, b.y), FAdd(a.z, b.z))

VSub(a, b) == Vec(FSub(a.x, b.x), FSub(a.y, b.y), FSub(a.z, b.z))

VNeg(a) == Vec(FNeg(a.x), FNeg(a.y), FNeg(a.z))

VScale(a, k) == Vec(FMul(a.x, k), FMul(a.y, k), FMul(a.z, k))

VDot(a, b) == FAdd(FAdd(FMul(a.x, b.x), FMul(a.y, b.y)), FMul(a.z, b.z))

VCross(a, b) ==
    Vec(FSub(FMul(a.y, b.z), FMul(a.z, b.y)),
        FSub(FMul(a.z, b.x), FMul(a.x, b.z)),
        FSub(FMul(a.x, b.y), FMul(a.y, b.x)))

VFinite(a) == IsFinite(Z(a.x)) /\ IsFinite(Z(a.y)) /\ IsFinite(Z(a.z)) /\ a.x # NaN /\ a.y # NaN /\ a.z # NaN

\* Vector3::length: sqrt(x*x + y*y + z*z), the sum of squares kept exact.
VLength(a) ==
    IF ~VFinite(a) THEN NaN
    ELSE LimbSqrt(LimbAdd(LimbAdd(LimbSquare(Abs(Z(a.x))), LimbSquare(Abs(Z(a.y)))),
                          LimbSquare(Abs(Z(a.z)))))

\* Vector3::normalized: a zero vector is returned unchanged (its length is
\* taken as 1), any other is divided by its length.
VNormalized(a) ==
    LET len == VLength(a)
        l == IF len = 0 THEN Scale ELSE len
    IN  Vec(FDiv(a.x, l), FDiv(a.y, l), FDiv(a.z, l))

-----------------------------------------------------------------------------
(* f32 trigonometry, in units of 1e-4 radian *)

PI == 31416

HalfPi == PI \div 2

\* x reduced to (-PI, PI] by whole turns.
RECURSIVE WrapPi(_)
WrapPi(x) ==
    IF x > PI THEN WrapPi(x - 2 * PI)
    ELSE IF x <= 0 - PI THEN WrapPi(x + 2 * PI)
    ELSE x

\* The sine series x - x^3/3! + x^5/5! - x^7/7! + x^9/9! on [-pi/2, pi/2].
SinSeries(x) ==
    LET x2 == FMul(x, x)
        x3 == FMul(x2, x)
        x5 == FMul(x3, x2)
        x7 == FMul(x5, x2)
        x9 == FMul(x7, x2)
    IN  x - RDiv(x3, 6) + RDiv(x5, 120) - RDiv(x7, 5040) + RDiv(x9, 362880)

\* f32::sin
SinFn[a \in Int] ==
    IF a = NaN \/ ~IsFinite(Z(a)) THEN NaN
    ELSE LET x == WrapPi(Z(a))
             y == IF x > HalfPi THEN PI - x
                  ELSE IF x < 0 - HalfPi THEN 0 - PI - x
                  ELSE x
             s == SinSeries(y)
         IN  IF s > Scale THEN Scale ELSE IF s < 0 - Scale THEN 0 - Scale ELSE s

FSin(a) == SinFn[a]

\* f32::cos
FCos(a) == IF a = NaN \/ ~IsFinite(Z(a)) THEN NaN ELSE FSin(Z(a) + HalfPi)

\* The largest digit j of 0..15 with lo + j * step within [-pi/2, pi/2]
\* and a sine of at most v.
AsinDigit(v, lo, step) ==
    CHOOSE j \in 0..15 :
        /\ lo + j * step <= HalfPi /\ FSin(lo + j * step) <= v
        /\ (j = 15 \/ lo + (j + 1) * step > HalfPi \/ FSin(lo + (j + 1) * step) > v)

\* The largest angle of [-pi/2, pi/2] with a sine of at most v, one base-16
\* digit at a time.
RECURSIVE AsinSearch(_, _, _)
AsinSearch(v, lo, step) ==
    IF step = 0 THEN lo
    ELSE AsinSearch(v, lo + AsinDigit(v, lo, step) * step, step \div 16)

\* The angle within [-pi/2, pi/2] whose sine is nearest v.
AsinNearest(v, lo) ==
    IF Abs(FSin(lo + 1) - v) < Abs(FSin(lo) - v) THEN lo + 1 ELSE lo

\* f32::asin: NaN outside [-1, 1].
AsinFn[v0 \in Int] ==
    LET v == Z(v0)
    IN  IF v0 = NaN \/ v > Scale \/ v < 0 - Scale THEN NaN
        ELSE IF v = Scale THEN HalfPi
        ELSE IF v = 0 - Scale THEN 0 - HalfPi
        ELSE AsinNearest(v, AsinSearch(v, 0 - HalfPi, 4096))

FAsin(v0) == AsinFn[v0]

\* The angle t of the first quadrant placed by the signs of z and x.
Atan2Place(z, x, t) ==
    IF x >= 0 THEN (IF z >= 0 THEN t ELSE 0 - t)
    ELSE (IF z >= 0 THEN PI - t ELSE t - PI)

\* f32::atan2(z, x), in (-pi, pi]: the first-octant angle q, from the smaller
\* of |z|, |x| over the hypotenuse, then placed by the signs of z and x.
Atan2Fn[arg \in Int \X Int] ==
    LET z == Z(arg[1])
        x == Z(arg[2])
    IN  IF arg[1] = NaN \/ arg[2] = NaN THEN NaN
        ELSE IF z = 0 /\ x = 0 THEN 0
        ELSE IF Abs(z) <= Abs(x)
             THEN Atan2Place(z, x, FAsin(FDiv(Abs(z), VLength(Vec(x, 0, z)))))
             ELSE Atan2Place(z, x, HalfPi - FAsin(FDiv(Abs(x), VLength(Vec(x, 0, z)))))

FAtan2(z0, x0) == Atan2Fn[<<z0, x0>>]

-----------------------------------------------------------------------------
(* camera.rs *)

PITCH_LIMIT == 15000

ZOOM_MIN == 10000

ZOOM_MAX == 1000000

\* update_basis_vectors with right left as the raw cross product.
update_basis_unnormalized(c) ==
    LET forward == VNormalized(VSub(c.center, c.eye))
        right == VCross(forward, c.up)
        up == VCross(right, forward)
    IN  [c EXCEPT !.forward = forward, !.right = right, !.up = up]

\* right and up of Camera::update_basis_vectors, forward being a value.
BasisFrom(c, forward) ==
    CHOOSE based \in
        { [c EXCEPT !.forward = forward, !.right = right, !.up = VCross(right, forward)] :
            right \in { VNormalized(VCross(forward, c.up)) } } : TRUE

\* Camera::update_basis_vectors
update_basis_vectors(c) ==
    CHOOSE based \in
        { BasisFrom(c, forward) : forward \in { VNormalized(VSub(c.center, c.eye)) } } : TRUE

\* Camera::new
CameraNew(eye, center, up) ==
    update_basis_vectors([eye |-> eye, center |-> center, up |-> up,
                          forward |-> VZero, right |-> VZero])

\* The new pitch without its clamp.
OrbitPitchUnclamped(current_pitch, pitch) == FAdd(current_pitch, pitch)

\* The new pitch of Camera::orbit.
OrbitPitch(current_pitch, pitch) ==
    FClamp(FAdd(current_pitch, pitch), 0 - PITCH_LIMIT, PITCH_LIMIT)

\* Camera::orbit, from the spherical coordinates on: the eye is rebuilt from
\* radius, new_yaw and new_pitch, and the basis recomputed.  The new eye is
\* a value before update_basis_vectors reads it.
OrbitTo(c, radius, new_yaw, new_pitch) ==
    CHOOSE moved \in
        { update_basis_vectors([c EXCEPT !.eye = eye]) :
            eye \in { VAdd(c.center,
                           Vec(FMul(FMul(radius, FCos(new_pitch)), FCos(new_yaw)),
                               FMul(radius, FSin(new_pitch)),
                               FMul(FMul(radius, FCos(new_pitch)), FSin(new_yaw)))) } } : TRUE

\* Camera::orbit: radius, new_yaw and new_pitch are values before the eye is
\* rebuilt from them.
orbit(c, yaw, pitch) ==
    LET relative_pos == VSub(c.eye, c.center)
    IN  CHOOSE moved \in
            { OrbitTo(c, radius, new_yaw, new_pitch) :
                radius \in { VLength(relative_pos) },
                new_yaw \in { FAdd(FAtan2(relative_pos.z, relative_pos.x), yaw) },
                new_pitch \in { OrbitPitch(FAsin(FDiv(relative_pos.y, VLength(relative_pos))),
                                           pitch) } } : TRUE

\* The new distance without its clamp.
ZoomDistanceUnclamped(distance, factor) == FMul(distance, factor)

\* The new eye-to-center distance of Camera::zoom.
ZoomDistance(distance, factor) ==
    FClamp(FMul(distance, factor), ZOOM_MIN, ZOOM_MAX)

\* Camera::zoom
zoom(c, factor) ==
    LET relative_pos == VSub(c.eye, c.center)
        distance == VLength(relative_pos)
        new_distance == ZoomDistance(distance, factor)
        new_relative_pos == VScale(VNormalized(relative_pos), new_distance)
    IN  CHOOSE moved \in
            { update_basis_vectors([c EXCEPT !.eye = eye]) :
                eye \in { VAdd(c.center, new_relative_pos) } } : TRUE

\* Camera::basis_change
basis_change(c, v) ==
    Vec(FSub(FAdd(FMul(v.x, c.right.x), FMul(v.y, c.up.x)), FMul(v.z, c.forward.x)),
        FSub(FAdd(FMul(v.x, c.right.y), FMul(v.y, c.up.y)), FMul(v.z, c.forward.y)),
        FSub(FAdd(FMul(v.x, c.right.z), FMul(v.y, c.up.z)), FMul(v.z, c.forward.z)))

-----------------------------------------------------------------------------
(* material.rs, ray_intersect.rs *)

\* Option<char>
None == <<>>

Some(k) == <<k>>

\* Material::with_texture
with_texture(diffuse, specular, albedo, refractive_index, key) ==
    [diffuse |-> diffuse, albedo |-> albedo, specular |-> specular,
     refractive_index |-> refractive_index, texture_key |-> Some(key)]

\* raylib's Color: four u8.
Color(r, g, b, a) == [r |-> r, g |-> g, b |-> b, a |-> a]

\* `as u8` and `as u32` of a float: toward zero, saturating, NaN to 0.
AsU8(x) ==
    IF x = NaN \/ Z(x) <= 0 THEN 0
    ELSE IF Z(x) >= 255 * Scale THEN 255
    ELSE Z(x) \div Scale

AsU32(x) == IF x = NaN \/ Z(x) <= 0 THEN 0 ELSE Z(x) \div Scale

\* vector3_to_color
vector3_to_color(v) ==
    Color(AsU8(FClamp(FMul(v.x, 255 * Scale), 0, 255 * Scale)),
          AsU8(FClamp(FMul(v.y, 255 * Scale), 0, 255 * Scale)),
          AsU8(FClamp(FMul(v.z, 255 * Scale), 0, 255 * Scale)), 255)

\* The four bytes of the pixel at byte index idx (counted from 0).
PixelAt(data, idx) == Color(data[idx + 1], data[idx + 2], data[idx + 3], data[idx + 4])

IMin(a, b) == IF a < b THEN a ELSE b

\* TextureManager::get_pixel_color; images is a function from the
\* registered keys to textures [width, height, data].
get_pixel_color(images, key, x, y) ==
    IF key \in DOMAIN images
    THEN PixelAt(images[key].data,
                 (IMin(y, images[key].height - 1) * images[key].width
                    + IMin(x, images[key].width - 1)) * 4)
    ELSE Color(255, 0, 255, 255)

\* The pixel coordinate color_at derives from a texture coordinate in [0, 1].
TexelIndex(t, extent) ==
    AsU32(FClamp(FMul(t, (extent - 1) * Scale), 0, (extent - 1) * Scale))

\* Material::color_at
color_at(m, images, u, v) ==
    IF m.texture_key # None /\ m.texture_key[1] \in DOMAIN images
    THEN get_pixel_color(images, m.texture_key[1],
                         TexelIndex(u, images[m.texture_key[1]].width),
                         TexelIndex(FSub(Scale, v), images[m.texture_key[1]].height))
    ELSE vector3_to_color(m.diffuse)

CubeFace == {"Front", "Back", "Left", "Right", "Top", "Bottom"}

\* Intersect::new
IntersectNew(point, normal, distance, material, u, v, face) ==
    [point |-> point, normal |-> normal, distance |-> distance,
     is_intersecting |-> TRUE, material |-> material, u |-> u, v |-> v,
     face |-> face]

\* Intersect::empty
IntersectEmpty ==
    [point |-> VZero, normal |-> VZero, distance |-> 0,
     is_intersecting |-> FALSE,
     material |-> with_texture(VZero, 0, <<0, 0, 0, 0>>, Scale, "b"),
     u |-> 0, v |-> 0, face |-> "Front"]

-----------------------------------------------------------------------------
(* cube.rs *)

\* Cube::new
CubeNew(center, size, material) ==
    [center |-> center, size |-> size, material |-> material]

CubeMin(cube) ==
    VSub(cube.center, Vec(FMul(cube.size, Scale \div 2), FMul(cube.size, Scale \div 2),
                          FMul(cube.size, Scale \div 2)))

CubeMax(cube) ==
    VAdd(cube.center, Vec(FMul(cube.size, Scale \div 2), FMul(cube.size, Scale \div 2),
                          FMul(cube.size, Scale \div 2)))

\* 1.0 / d: +inf for 0.0 and -inf for -0.0.
Recip(d) == FDiv(Scale, d)

\* The two plane distances of one axis, swapped when the first is greater.
SlabOrdered(t0, t1) == IF FGt(t0, t1) THEN <<t1, t0>> ELSE <<t0, t1>>

Slab(lo, hi, o, d) ==
    SlabOrdered(FMul(FSub(lo, o), Recip(d)), FMul(FSub(hi, o), Recip(d)))

\* The six plane tests with a face order that tests the Z planes first.
ClassifyFaceZFirst(point, min, max) ==
    IF FLt(FAbs(FSub(point.z, min.z)), EPSILON) THEN "Back"
    ELSE IF FLt(FAbs(FSub(point.z, max.z)), EPSILON) THEN "Front"
    ELSE IF FLt(FAbs(FSub(point.x, min.x)), EPSILON) THEN "Left"
    ELSE IF FLt(FAbs(FSub(point.x, max.x)), EPSILON) THEN "Right"
    ELSE IF FLt(FAbs(FSub(point.y, min.y)), EPSILON) THEN "Bottom"
    ELSE "Top"

\* The face of the first plane, in the order of the if-chain, that the point
\* lies within epsilon of; Front when none matches.
ClassifyFace(point, min, max) ==
    IF FLt(FAbs(FSub(point.x, min.x)), EPSILON) THEN "Left"
    ELSE IF FLt(FAbs(FSub(point.x, max.x)), EPSILON) THEN "Right"
    ELSE IF FLt(FAbs(FSub(point.y, min.y)), EPSILON) THEN "Bottom"
    ELSE IF FLt(FAbs(FSub(point.y, max.y)), EPSILON) THEN "Top"
    ELSE IF FLt(FAbs(FSub(point.z, min.z)), EPSILON) THEN "Back"
    ELSE "Front"

FaceNormal(face) ==
    CASE face = "Left" -> Vec(0 - Scale, 0, 0)
      [] face = "Right" -> Vec(Scale, 0, 0)
      [] face = "Bottom" -> Vec(0, 0 - Scale, 0)
      [] face = "Top" -> Vec(0, Scale, 0)
      [] face = "Back" -> Vec(0, 0, 0 - Scale)
      [] face = "Front" -> Vec(0, 0, Scale)

\* u and v of a face: Left and Right project to Z/Y, Bottom and Top to X/Z,
\* Back and Front to X/Y, each over the box's extent on that axis.
FaceU(face, point, min, max) ==
    IF face \in {"Left", "Right"}
    THEN FDiv(FSub(point.z, min.z), FSub(max.z, min.z))
    ELSE FDiv(FSub(point.x, min.x), FSub(max.x, min.x))

FaceV(face, point, min, max) ==
    IF face \in {"Bottom", "Top"}
    THEN FDiv(FSub(point.z, min.z), FSub(max.z, min.z))
    ELSE FDiv(FSub(point.y, min.y), FSub(max.y, min.y))

\* Cube::ray_intersect from the face classification on.
HitOnFace(cube, point, t, face) ==
    IntersectNew(point, FaceNormal(face), t, cube.material,
                 FaceU(face, point, CubeMin(cube), CubeMax(cube)),
                 FaceV(face, point, CubeMin(cube), CubeMax(cube)), face)

\* Cube::ray_intersect from the chosen distance t on.
HitAt(cube, o, d, t) ==
    IF FLt(t, 0) THEN IntersectEmpty
    ELSE HitOnFace(cube, VAdd(o, VScale(d, t)), t,
                   ClassifyFace(VAdd(o, VScale(d, t)), CubeMin(cube), CubeMax(cube)))

\* The near end of the interval whatever its sign.
ChooseTAlwaysMin(tmin, tmax) == tmin

\* let t = if tmin > 0.0 { tmin } else { tmax };
ChooseT(tmin, tmax) == IF FGt(tmin, 0) THEN tmin ELSE tmax

\* The z slabs without the test for an empty interval.
IntersectZUnchecked(cube, o, d, tmin, tmax, sz) ==
    HitAt(cube, o, d, ChooseT(IF FGt(sz[1], tmin) THEN sz[1] ELSE tmin,
                              IF FLt(sz[2], tmax) THEN sz[2] ELSE tmax))

\* Cube::ray_intersect from the z slabs on: tmin, tmax are the interval of
\* the x and y slabs, narrowed here by the z slabs.
IntersectZ(cube, o, d, tmin, tmax, sz) ==
    IF FGt(tmin, sz[2]) \/ FGt(sz[1], tmax) THEN IntersectEmpty
    ELSE HitAt(cube, o, d, ChooseT(IF FGt(sz[1], tmin) THEN sz[1] ELSE tmin,
                                   IF FLt(sz[2], tmax) THEN sz[2] ELSE tmax))

\* Cube::ray_intersect from the y slabs on.
IntersectXY(cube, o, d, sx, sy, sz) ==
    IF FGt(sx[1], sy[2]) \/ FGt(sy[1], sx[2]) THEN IntersectEmpty
    ELSE IntersectZ(cube, o, d,
                    IF FGt(sy[1], sx[1]) THEN sy[1] ELSE sx[1],
                    IF FLt(sy[2], sx[2]) THEN sy[2] ELSE sx[2], sz)

\* Cube::ray_intersect
ray_intersect(cube, o, d) ==
    IntersectXY(cube, o, d,
                Slab(CubeMin(cube).x, CubeMax(cube).x, o.x, d.x),
                Slab(CubeMin(cube).y, CubeMax(cube).y, o.y, d.y),
                Slab(CubeMin(cube).z, CubeMax(cube).z, o.z, d.z))

-----------------------------------------------------------------------------
(* main.rs: sky, ray construction, shadow *)

Lerp(a, b, k) == VAdd(VScale(a, FSub(Scale, k)), VScale(b, k))

\* procedural_sky from t = (d.y + 1) * 0.5 on: green (0.1, 0.6, 0.2) to white
\* below 0.54, white below 0.55, white to blue (0.3, 0.5, 1.0) below 0.8.
SkyAt(t) ==
    IF FLt(t, 5400)
    THEN Lerp(Vec(1000, 6000, 2000), Vec(Scale, Scale, Scale), FDiv(t, 5500))
    ELSE IF FLt(t, 5500) THEN Vec(Scale, Scale, Scale)
    ELSE IF FLt(t, 8000)
    THEN Lerp(Vec(Scale, Scale, Scale), Vec(3000, 5000, Scale),
              FDiv(FSub(t, 5500), 2500))
    ELSE Vec(3000, 5000, Scale)

\* procedural_sky
procedural_sky(dir) == SkyAt(FMul(FAdd(VNormalized(dir).y, Scale), Scale \div 2))

\* The hit point itself, with no bias.
offset_origin_none(intersect, direction) == intersect.point
\* offset_origin
offset_origin(intersect, direction) ==
    IF FLt(VDot(direction, intersect.normal), 0)
    THEN VSub(intersect.point, VScale(intersect.normal, ORIGIN_BIAS))
    ELSE VAdd(intersect.point, VScale(intersect.normal, ORIGIN_BIAS))

\* reflect
reflect(incident, normal) ==
    VSub(incident, VScale(VScale(normal, 2 * Scale), VDot(incident, normal)))

\* refract from k on; n and cosi are already those of the side the ray is on.
RefractWith(incident, n, eta, cosi, k) ==
    IF FLt(k, 0) THEN None
    ELSE Some(VAdd(VScale(incident, eta),
                   VScale(n, FSub(FMul(eta, cosi), FSqrt(k)))))

\* refract from eta on.
RefractEta(incident, n, eta, cosi) ==
    RefractWith(incident, n, eta, cosi,
                FSub(Scale, FMul(FMul(eta, eta), FSub(Scale, FMul(cosi, cosi)))))

\* refract from the clamped cosine on: a ray leaving the medium (cosi > 0)
\* swaps the indices and flips the normal.
RefractCosUnswapped(incident, normal, refractive_index, cosi) ==
    IF FGt(cosi, 0)
    THEN RefractEta(incident, VNeg(normal), FDiv(Scale, refractive_index), cosi)
    ELSE RefractEta(incident, normal, FDiv(Scale, refractive_index), FNeg(cosi))
RefractCos(incident, normal, refractive_index, cosi) ==
    IF FGt(cosi, 0)
    THEN RefractEta(incident, VNeg(normal), FDiv(refractive_index, Scale), cosi)
    ELSE RefractEta(incident, normal, FDiv(Scale, refractive_index), FNeg(cosi))

\* refract
refract(incident, normal, refractive_index) ==
    RefractCos(incident, normal, refractive_index,
               FMin(FMax(VDot(incident, normal), 0 - Scale), Scale))

\* The test of cast_shadow's loop on one object's record.
Occludes(shadow_intersect, light_distance) ==
    /\ shadow_intersect.is_intersecting
    /\ FLt(shadow_intersect.distance, light_distance)

\* The first object alone decides.
RECURSIVE ShadowLoopFirstOnly(_, _, _, _, _)
ShadowLoopFirstOnly(objects, i, origin, light_dir, light_distance) ==
    IF i > Len(objects) THEN 0
    ELSE IF Occludes(ray_intersect(objects[i], origin, light_dir), light_distance)
    THEN Scale
    ELSE 0

\* cast_shadow's loop from object i on: 1.0 at the first occluder, else 0.0.
RECURSIVE ShadowLoop(_, _, _, _, _)
ShadowLoop(objects, i, origin, light_dir, light_distance) ==
    IF i > Len(objects) THEN 0
    ELSE IF Occludes(ray_intersect(objects[i], origin, light_dir), light_distance)
    THEN Scale
    ELSE ShadowLoop(objects, i + 1, origin, light_dir, light_distance)

\* let shadow_ray_origin = offset_origin(intersect, &light_dir);
ShadowRayOrigin(intersect, light_dir) == offset_origin(intersect, light_dir)

\* cast_shadow from light_dir on.
ShadowToward(intersect, objects, light_dir, light_distance) ==
    ShadowLoop(objects, 1, ShadowRayOrigin(intersect, light_dir), light_dir,
               light_distance)

\* cast_shadow
cast_shadow(intersect, light, objects) ==
    ShadowToward(intersect, objects,
                 VNormalized(VSub(light.position, intersect.point)),
                 VLength(VSub(light.position, intersect.point)))

-----------------------------------------------------------------------------
(* main.rs: cast_ray *)

\* The cut-off one level later.
DepthExceededLate(depth) == depth > 4

\* if depth > 3
DepthExceeded(depth) == depth > 3

\* A recursive call that passes its own depth on.
ChildDepthSame(depth) == depth

\* depth + 1 of the recursive calls
ChildDepth(depth) == depth + 1

\* object.ray_intersect(ray_origin, ray_direction) of every object, in order.
Intersections(objects, origin, direction) ==
    [i \in 1..Len(objects) |-> ray_intersect(objects[i], origin, direction)]

\* cast_ray's loop from record i on: a record replaces the kept one when it
\* intersects at a distance smaller than zbuffer.
RECURSIVE NearestLoop(_, _, _, _)
NearestLoop(isects, i, intersect, zbuffer) ==
    IF i > Len(isects) THEN intersect
    ELSE IF isects[i].is_intersecting /\ FLt(isects[i].distance, zbuffer)
    THEN NearestLoop(isects, i + 1, isects[i], isects[i].distance)
    ELSE NearestLoop(isects, i + 1, intersect, zbuffer)

\* The record cast_ray shades: Intersect::empty() with zbuffer = INFINITY
\* before the loop.
Nearest(isects) == NearestLoop(isects, 1, IntersectEmpty, PInf)

\* f32::powf for the whole-number exponents of the materials.
Square[x \in Int] == FMul(x, x)

\* x to a whole power by squaring.
PowInt[arg \in Int \X Int] ==
    IF arg[2] <= 0 THEN Scale
    ELSE IF arg[2] % 2 = 0 THEN Square[PowInt[<<arg[1], arg[2] \div 2>>]]
    ELSE FMul(arg[1], PowInt[<<arg[1], arg[2] - 1>>])

FPowf(x, e) == PowInt[<<x, e \div Scale>>]

\* A Color's r, g, b as f32 / 255.0.
ColorToV3(c) ==
    Vec(FDiv(c.r * Scale, 255 * Scale), FDiv(c.g * Scale, 255 * Scale),
        FDiv(c.b * Scale, 255 * Scale))

\* phong_color from the two intensities on.
PhongSum(tex_color, light, material, diffuse_intensity, specular_intensity) ==
    VAdd(VScale(VScale(ColorToV3(tex_color), diffuse_intensity), material.albedo[1]),
         VScale(VScale(ColorToV3(light.color), specular_intensity), material.albedo[2]))

\* phong_color from the three directions and the light intensity on.
PhongLit(intersect, light, tex_color, light_dir, view_dir, reflect_dir, light_intensity) ==
    PhongSum(tex_color, light, intersect.material,
             FMul(FMax(VDot(intersect.normal, light_dir), 0), light_intensity),
             FMul(FPowf(FMax(VDot(view_dir, reflect_dir), 0), intersect.material.specular),
                  light_intensity))

\* phong_color from light_dir on.
PhongToward(intersect, ray_origin, light, tex_color, shadow_intensity, light_dir) ==
    PhongLit(intersect, light, tex_color, light_dir,
             VNormalized(VSub(ray_origin, intersect.point)),
             VNormalized(reflect(VNeg(light_dir), intersect.normal)),
             FMul(light.intensity, FSub(Scale, shadow_intensity)))

\* phong_color of cast_ray for the record it shades.
PhongColor(intersect, ray_origin, objects, light, images) ==
    PhongToward(intersect, ray_origin, light,
                color_at(intersect.material, images, intersect.u, intersect.v),
                cast_shadow(intersect, light, objects),
                VNormalized(VSub(light.position, intersect.point)))

\* reflect(ray_direction, &intersect.normal).normalized()
ReflectDir(ray_direction, intersect) ==
    VNormalized(reflect(ray_direction, intersect.normal))

\* The last expression of cast_ray.
Composite(phong_color, reflect_color, refract_color, reflectivity, transparency) ==
    VAdd(VAdd(VScale(phong_color, FSub(FSub(Scale, reflectivity), transparency)),
              VScale(reflect_color, reflectivity)),
         VScale(refract_color, transparency))

\* if reflectivity > 0.0, with reflectivity = intersect.material.albedo[2]
ReflectsFromZero(material) == ~FLt(material.albedo[3], 0)
Reflects(material) == FGt(material.albedo[3], 0)

\* if transparency > 0.0, with transparency = intersect.material.albedo[3]
Transmits(material) == FGt(material.albedo[4], 0)

\* The direction of the refraction branch: the refracted direction, or the
\* mirror direction when refract gives None.
RefractBranchDir(ray_direction, intersect) ==
    IF refract(ray_direction, intersect.normal, intersect.material.refractive_index) = None
    THEN ReflectDir(ray_direction, intersect)
    ELSE refract(ray_direction, intersect.normal, intersect.material.refractive_index)[1]

\* cast_ray as the function of its arguments that render calls per pixel.
RECURSIVE cast_ray(_, _, _, _, _, _)

\* cast_ray from the biased hit point along dir, one level deeper; origin
\* and direction are values when the call is entered.
CastToward(intersect, dir, objects, light, images, depth) ==
    CHOOSE color \in
        { cast_ray(o, d, objects, light, images, ChildDepth(depth)) :
            o \in { offset_origin(intersect, dir) }, d \in { dir } } : TRUE

\* cast_ray after its loop over the objects has left the record intersect:
\* the three colors are values before they are weighted.
CastFrom(intersect, ray_origin, ray_direction, objects, light, images, depth) ==
    IF ~intersect.is_intersecting
    THEN procedural_sky(ray_direction)
    ELSE CHOOSE color \in
            { Composite(phong_color, reflect_color, refract_color,
                        intersect.material.albedo[3], intersect.material.albedo[4]) :
                phong_color \in { PhongColor(intersect, ray_origin, objects, light, images) },
                reflect_color \in
                    { IF Reflects(intersect.material)
                      THEN CastToward(intersect, ReflectDir(ray_direction, intersect),
                                      objects, light, images, depth)
                      ELSE VZero },
                refract_color \in
                    { IF Transmits(intersect.material)
                      THEN CastToward(intersect, RefractBranchDir(ray_direction, intersect),
                                      objects, light, images, depth)
                      ELSE VZero } } : TRUE

\* The record the loop over the objects leaves is a value before it is
\* shaded.
cast_ray(ray_origin, ray_direction, objects, light, images, depth) ==
    IF DepthExceeded(depth)
    THEN procedural_sky(ray_direction)
    ELSE CHOOSE color \in
            { CastFrom(intersect, ray_origin, ray_direction, objects, light, images, depth) :
                intersect \in { Nearest(Intersections(objects, ray_origin, ray_direction)) } } :
            TRUE

-----------------------------------------------------------------------------
(* The camera under the frame loop's calls (main.rs, the key handlers) *)

MaxCameraCalls == 3

Idle == [status |-> "idle"]

WORLD_UP == Vec(0, Scale, 0)

\* The cameras a run starts from: the one main builds, and one closer to its
\* center than the zoom range allows, looking along -Z.
InitialCameras ==
    { CameraNew(Vec(0, 15 * Scale, 30 * Scale), Vec(5 * Scale, 5 * Scale, 5 * Scale), WORLD_UP),
      CameraNew(Vec(0, 0, Scale \div 2), VZero, WORLD_UP) }

\* rotation_speed = PI / 100.0, and a step of PI / 6.
RotationSpeed == RDiv(PI, 100)

OrbitArgs ==
    { <<RotationSpeed, 0>>, <<0 - RotationSpeed, 0>>,
      <<0, 0 - RotationSpeed>>, <<0, RotationSpeed>>,
      <<0, RDiv(PI, 6)>>, <<0, 0 - RDiv(PI, 6)>> }

\* 0.95 and 1.05 are the frame loop's factors; 0.5 and 2.0 reach the limits.
ZoomArgs == { 9500, 10500, 5000, 20000 }

EyeDistance(c) == VLength(VSub(c.eye, c.center))

\* The pitch the eye implies: asin of the relative y over the radius.
ImpliedPitch(c) == FAsin(FDiv(VSub(c.eye, c.center).y, EyeDistance(c)))

InitCamera ==
    /\ mode = "camera"
    /\ camera \in InitialCameras
    /\ camLog = [op |-> "new", calls |-> 0, zoomed |-> FALSE, orbited |-> FALSE,
                 asked |-> 0, clamped |-> FALSE]
    /\ probe = Idle /\ shade = Idle /\ scene = Idle /\ stack = <<>> /\ trace = Idle
    /\ loop = Idle /\ workers = Idle /\ framebuffer = Idle

\* One camera.orbit(yaw, pitch) call.  asked is the pitch the call asks for,
\* before the clamp.
Orbit ==
    /\ mode = "camera"
    /\ camLog.calls < MaxCameraCalls
    /\ \E a \in OrbitArgs :
          /\ camera' = orbit(camera, a[1], a[2])
          /\ camLog' = [camLog EXCEPT !.op = "orbit", !.calls = @ + 1,
                                      !.orbited = TRUE,
                                      !.asked = FAdd(ImpliedPitch(camera), a[2])]
    /\ UNCHANGED <<mode, probe, shade, scene, stack, trace,
                 loop, workers, framebuffer>>

\* One camera.zoom(factor) call.  asked is the distance the call asks for,
\* before the clamp; clamped records that some zoom call so far asked for a
\* distance outside the range.
Zoom ==
    /\ mode = "camera"
    /\ camLog.calls < MaxCameraCalls
    /\ \E f \in ZoomArgs :
          /\ camera' = zoom(camera, f)
          /\ camLog' = [camLog EXCEPT !.op = "zoom", !.calls = @ + 1,
                                      !.zoomed = TRUE,
                                      !.asked = FMul(EyeDistance(camera), f),
                                      !.clamped = @ \/ FMul(EyeDistance(camera), f) < ZOOM_MIN
                                                    \/ FMul(EyeDistance(camera), f) > ZOOM_MAX]
    /\ UNCHANGED <<mode, probe, shade, scene, stack, trace,
                 loop, workers, framebuffer>>

NextCamera == Orbit \/ Zoom

SpecCamera == InitCamera /\ [][NextCamera]_vars

-----------------------------------------------------------------------------
(* One Cube::ray_intersect call on a box and a ray *)

\* The four opaque wool materials of main share these parameters.
MatWool == with_texture(Vec(5000, 5000, 5000), 10 * Scale, <<9000, 1000, 0, 0>>, 0, "w")

\* The unit cube at the origin, and a cube of edge 2 centred at (1, 1, 0).
ProbeCubes ==
    { CubeNew(VZero, Scale, MatWool),
      CubeNew(Vec(Scale, Scale, 0), 2 * Scale, MatWool) }

\* Ray origins: every coordinate is behind, inside, on the +side plane of the
\* unit cube, or in front of both cubes.
ProbeCoords == { 0 - 2 * Scale, 0, Scale \div 2, 5 * Scale }

ProbeOrigins == { Vec(x, y, z) : x \in ProbeCoords, y \in ProbeCoords, z \in ProbeCoords }

\* Ray directions: the 26 directions with components -1, 0, 1, which the
\* fixed point represents exactly (ray_intersect does not ask for a unit
\* direction).
ProbeDirections ==
    { Vec(x, y, z) : x \in {0 - Scale, 0, Scale}, y \in {0 - Scale, 0, Scale},
                     z \in {0 - Scale, 0, Scale} } \ { VZero }

InitCube ==
    /\ mode = "cube"
    /\ probe \in [cube : ProbeCubes, origin : ProbeOrigins, direction : ProbeDirections,
                  status : {"ready"}, result : {IntersectEmpty}]
    /\ camera = Idle /\ camLog = Idle
    /\ shade = Idle /\ scene = Idle /\ stack = <<>> /\ trace = Idle
    /\ loop = Idle /\ workers = Idle /\ framebuffer = Idle

\* cube.ray_intersect(&origin, &direction)
CubeIntersect ==
    /\ mode = "cube"
    /\ probe.status = "ready"
    /\ probe' = [probe EXCEPT !.status = "done",
                              !.result = ray_intersect(probe.cube, probe.origin,
                                                       probe.direction)]
    /\ UNCHANGED <<mode, camera, camLog, shade, scene, stack, trace,
                 loop, workers, framebuffer>>

NextCube == CubeIntersect

SpecCube == InitCube /\ [][NextCube]_vars

(* What the slab method is to compute, said without the code's running       *)
(* interval: per axis the nearer and the farther of the two plane distances, *)
(* the entry distance the greatest of the nearer ones, the exit distance the *)
(* least of the farther ones.                                                *)

PlaneT(plane, o, d) == FMul(FSub(plane, o), Recip(d))

AxisNear(lo, hi, o, d) ==
    IF FLt(PlaneT(hi, o, d), PlaneT(lo, o, d)) THEN PlaneT(hi, o, d) ELSE PlaneT(lo, o, d)

AxisFar(lo, hi, o, d) ==
    IF FLt(PlaneT(hi, o, d), PlaneT(lo, o, d)) THEN PlaneT(lo, o, d) ELSE PlaneT(hi, o, d)

Max3(a, b, c) == IF a >= b /\ a >= c THEN a ELSE IF b >= c THEN b ELSE c

Min3(a, b, c) == IF a <= b /\ a <= c THEN a ELSE IF b <= c THEN b ELSE c

\* No plane distance of the ray is NaN (0 * inf: an origin exactly on a
\* plane of an axis the ray does not move along).
NoNaNSlab(cube, o, d) ==
    /\ PlaneT(CubeMin(cube).x, o.x, d.x) # NaN /\ PlaneT(CubeMax(cube).x, o.x, d.x) # NaN
    /\ PlaneT(CubeMin(cube).y, o.y, d.y) # NaN /\ PlaneT(CubeMax(cube).y, o.y, d.y) # NaN
    /\ PlaneT(CubeMin(cube).z, o.z, d.z) # NaN /\ PlaneT(CubeMax(cube).z, o.z, d.z) # NaN

EntryT(cube, o, d) ==
    Max3(AxisNear(CubeMin(cube).x, CubeMax(cube).x, o.x, d.x),
         AxisNear(CubeMin(cube).y, CubeMax(cube).y, o.y, d.y),
         AxisNear(CubeMin(cube).z, CubeMax(cube).z, o.z, d.z))

ExitT(cube, o, d) ==
    Min3(AxisFar(CubeMin(cube).x, CubeMax(cube).x, o.x, d.x),
         AxisFar(CubeMin(cube).y, CubeMax(cube).y, o.y, d.y),
         AxisFar(CubeMin(cube).z, CubeMax(cube).z, o.z, d.z))

ChosenT(cube, o, d) ==
    IF EntryT(cube, o, d) > 0 THEN EntryT(cube, o, d) ELSE ExitT(cube, o, d)

StrictlyInside(cube, o) ==
    /\ CubeMin(cube).x < o.x /\ o.x < CubeMax(cube).x
    /\ CubeMin(cube).y < o.y /\ o.y < CubeMax(cube).y
    /\ CubeMin(cube).z < o.z /\ o.z < CubeMax(cube).z

\* The faces whose plane the point lies within epsilon of.
PlaneCoord(face, min, max) ==
    CASE face = "Left" -> min.x [] face = "Right" -> max.x
      [] face = "Bottom" -> min.y [] face = "Top" -> max.y
      [] face = "Back" -> min.z [] face = "Front" -> max.z

PointCoord(face, point) ==
    IF face \in {"Left", "Right"} THEN point.x
    ELSE IF face \in {"Bottom", "Top"} THEN point.y
    ELSE point.z

FacesNear(cube, point) ==
    { f \in CubeFace :
        FLt(FAbs(FSub(PointCoord(f, point), PlaneCoord(f, CubeMin(cube), CubeMax(cube)))),
            EPSILON) }

\* The precedence the specification fixes.
FaceOrder == <<"Left", "Right", "Bottom", "Top", "Back", "Front">>

FaceRank(face) == CHOOSE i \in 1..6 : FaceOrder[i] = face

FirstFace(faces) == CHOOSE f \in faces : \A g \in faces : FaceRank(f) <= FaceRank(g)

-----------------------------------------------------------------------------
(* Camera properties.  The eye is rebuilt from rounded sines, cosines and     *)
(* quotients, so lengths and angles read back from it carry the rounding of  *)
(* the arithmetic: RelTol bounds a relative error in units of 1e-4, PitchTol *)
(* an angle in units of 1e-4 radian and OrthoTol a length or dot product in  *)
(* units of 1e-4.                                                            *)

RelTol == 5

PitchTol == 100

OrthoTol == 5

UnitLength(v) == VLength(v) # NaN /\ Abs(VLength(v) - Scale) <= OrthoTol

Orthogonal(a, b) == VDot(a, b) # NaN /\ Abs(VDot(a, b)) <= OrthoTol

\* C6: after construction and after every orbit and zoom call, forward, right
\* and up have length 1 and are pairwise orthogonal (to the rounding of the
\* arithmetic), and forward is the normalized direction from eye to center.
C6_BasisOrthonormal ==
    mode = "camera" =>
        /\ UnitLength(camera.forward)
        /\ UnitLength(camera.right)
        /\ UnitLength(camera.up)
        /\ Orthogonal(camera.forward, camera.right)
        /\ Orthogonal(camera.forward, camera.up)
        /\ Orthogonal(camera.right, camera.up)
        /\ camera.forward = VNormalized(VSub(camera.center, camera.eye))

\* Both an orbit and a zoom call have changed the eye.
C6_Witness ==
    /\ mode = "camera" /\ camLog.orbited /\ camLog.zoomed
    /\ camera.up # WORLD_UP

-----------------------------------------------------------------------------
(* Cube::ray_intersect properties *)

\* C7: a hit point within epsilon of two or more boundary planes (an edge or
\* a corner) is reported with the face, and that face's normal, of the first
\* of those planes in the order Left, Right, Bottom, Top, Back, Front.
C7_EdgeHitTakesFirstFace ==
    (mode = "cube" /\ probe.status = "done" /\ probe.result.is_intersecting
       /\ Cardinality(FacesNear(probe.cube, probe.result.point)) >= 2) =>
        /\ probe.result.face = FirstFace(FacesNear(probe.cube, probe.result.point))
        /\ probe.result.normal = FaceNormal(FirstFace(FacesNear(probe.cube, probe.result.point)))

\* A hit on the edge of the Top and Front faces, and one on a corner.
C7_Witness ==
    /\ mode = "cube" /\ probe.status = "done" /\ probe.result.is_intersecting
    /\ FacesNear(probe.cube, probe.result.point) = {"Top", "Front"}
    /\ probe.result.face = "Top"

\* C8: the hit distance is the entry distance when that is > 0 and the exit
\* distance otherwise; there is no hit when that distance is negative; the
\* hit point is origin + direction * distance and lies on the reported face;
\* a ray from inside the box hits at its exit distance; the ray from (0,0,5)
\* toward (0,0,-1) hits the unit cube on Front at 4.5, (0,0,0.5), (0,0,1).
C8_HitAtEntryElseExit ==
    (mode = "cube" /\ probe.status = "done"
       /\ NoNaNSlab(probe.cube, probe.origin, probe.direction)) =>
        /\ probe.result.is_intersecting <=>
              /\ EntryT(probe.cube, probe.origin, probe.direction)
                   <= ExitT(probe.cube, probe.origin, probe.direction)
              /\ ChosenT(probe.cube, probe.origin, probe.direction) >= 0
        /\ probe.result.is_intersecting =>
              /\ probe.result.distance = ChosenT(probe.cube, probe.origin, probe.direction)
              /\ probe.result.point =
                    VAdd(probe.origin, VScale(probe.direction, probe.result.distance))
              /\ probe.result.face \in FacesNear(probe.cube, probe.result.point)
        /\ StrictlyInside(probe.cube, probe.origin) =>
              /\ probe.result.is_intersecting
              /\ probe.result.distance = ExitT(probe.cube, probe.origin, probe.direction)
        /\ (probe.cube = CubeNew(VZero, Scale, MatWool)
              /\ probe.origin = Vec(0, 0, 5 * Scale)
              /\ probe.direction = Vec(0, 0, 0 - Scale)) =>
              /\ probe.result.is_intersecting
              /\ probe.result.face = "Front"
              /\ probe.result.distance = 45000
              /\ probe.result.point = Vec(0, 0, 5000)
              /\ probe.result.normal = Vec(0, 0, Scale)

\* A ray from outside that crosses the box: it enters at a positive distance
\* and leaves later.
C8_Witness ==
    /\ mode = "cube" /\ probe.status = "done" /\ probe.result.is_intersecting
    /\ NoNaNSlab(probe.cube, probe.origin, probe.direction)
    /\ EntryT(probe.cube, probe.origin, probe.direction) > 0
    /\ ExitT(probe.cube, probe.origin, probe.direction) > probe.result.distance
    /\ probe.result.distance = EntryT(probe.cube, probe.origin, probe.direction)

-----------------------------------------------------------------------------
(* One Material::color_at call, as cast_ray makes it on a hit record *)

\* A 2 x 2 RGBA8 texture whose four pixels differ, and a 1 x 2 one.
TexChecker ==
    [width |-> 2, height |-> 2,
     data |-> <<200, 10, 10, 255,  10, 200, 10, 255,
                10, 10, 200, 255,  255, 0, 255, 255>>]

TexStripe ==
    [width |-> 1, height |-> 2, data |-> <<90, 90, 90, 255,  30, 30, 30, 128>>]

\* Registries: nothing loaded, one texture, two textures.
ShadeRegistries ==
    { <<>>, [k \in {"w"} |-> TexChecker],
      [k \in {"w", "b"} |-> IF k = "w" THEN TexChecker ELSE TexStripe] }

\* Diffuse colors: main's wool grey, an orange, magenta itself, and one with
\* components outside [0, 1].
ShadeDiffuse ==
    { Vec(5000, 5000, 5000), Vec(9000, 4000, 0), Vec(Scale, 0, Scale),
      Vec(15000, 0 - 2000, 3333) }

ShadeMaterials ==
    { with_texture(d, 10 * Scale, <<9000, 1000, 0, 0>>, 0, k) :
        d \in ShadeDiffuse, k \in {"w", "b", "x"} }
    \cup { [with_texture(d, 10 * Scale, <<9000, 1000, 0, 0>>, 0, "w")
               EXCEPT !.texture_key = None] : d \in ShadeDiffuse }

ShadeCoords == {0, 2500, 5000, Scale, NaN}

InitShade ==
    /\ mode = "shade"
    /\ shade \in [material : ShadeMaterials, images : ShadeRegistries,
                  u : ShadeCoords, v : ShadeCoords,
                  status : {"ready"}, color : {Color(0, 0, 0, 0)}]
    /\ camera = Idle /\ camLog = Idle
    /\ probe = Idle /\ scene = Idle /\ stack = <<>> /\ trace = Idle
    /\ loop = Idle /\ workers = Idle /\ framebuffer = Idle

\* intersect.material.color_at(tm, intersect.u, intersect.v)
ColorAt ==
    /\ mode = "shade"
    /\ shade.status = "ready"
    /\ shade' = [shade EXCEPT !.status = "done",
                              !.color = color_at(shade.material, shade.images,
                                                 shade.u, shade.v)]
    /\ UNCHANGED <<mode, camera, camLog, probe, scene, stack, trace,
                 loop, workers, framebuffer>>

NextShade == ColorAt

SpecShade == InitShade /\ [][NextShade]_vars

\* C10: a material whose texture identifier is not in the registry is
\* resolved, without failing, to magenta (255, 0, 255, 255).
C10_MissingTextureIsMagenta ==
    (mode = "shade" /\ shade.status = "done"
       /\ shade.material.texture_key # None
       /\ shade.material.texture_key[1] \notin DOMAIN shade.images) =>
        shade.color = Color(255, 0, 255, 255)

-----------------------------------------------------------------------------
(* One cast_shadow call on a hit record, a light and an object list *)

MaxShadowObjects == 3

\* Light::new(position, color, intensity)
LightNew(position, color, intensity) ==
    [position |-> position, color |-> color, intensity |-> intensity]

\* The cube that was hit, one above it, one far above it, one beside the
\* first, and one to the right of the cube that was hit.
ShadowCubes ==
    { CubeNew(VZero, Scale, MatWool),
      CubeNew(Vec(0, 3 * Scale, 0), Scale, MatWool),
      CubeNew(Vec(0, 20 * Scale, 0), Scale, MatWool),
      CubeNew(Vec(5 * Scale, 3 * Scale, 0), Scale, MatWool),
      CubeNew(Vec(5 * Scale, 0, 0), Scale, MatWool) }

\* Every list of at most MaxShadowObjects different cubes, in every order.
ShadowObjectLists ==
    UNION { { q \in [1..n -> ShadowCubes] : \A i, j \in 1..n : q[i] = q[j] => i = j } :
            n \in 0..MaxShadowObjects }

\* Hits on the top and on the right face of the unit cube at the origin.
ShadowHits ==
    { ray_intersect(CubeNew(VZero, Scale, MatWool), Vec(0, 5 * Scale, 0), Vec(0, 0 - Scale, 0)),
      ray_intersect(CubeNew(VZero, Scale, MatWool), Vec(5 * Scale, 0, 0), Vec(0 - Scale, 0, 0)) }

\* Lights straight above, to the right, straight below, and main's light.
ShadowLights ==
    { LightNew(Vec(0, 10 * Scale, 0), Color(255, 255, 255, 255), 3 * Scale),
      LightNew(Vec(10 * Scale, 0, 0), Color(255, 255, 255, 255), 3 * Scale),
      LightNew(Vec(0, 0 - 10 * Scale, 0), Color(255, 255, 255, 255), 3 * Scale),
      LightNew(Vec(0 - 20 * Scale, 20 * Scale, 15 * Scale), Color(255, 255, 255, 255),
               3 * Scale) }

InitShadow ==
    /\ mode = "shadow"
    /\ scene \in [objects : ShadowObjectLists, light : ShadowLights]
    /\ probe \in [intersect : ShadowHits, status : {"ready"}, shadow : {0}]
    /\ camera = Idle /\ camLog = Idle
    /\ shade = Idle /\ stack = <<>> /\ trace = Idle
    /\ loop = Idle /\ workers = Idle /\ framebuffer = Idle

\* let shadow_intensity = cast_shadow(&intersect, light, objects);
CastShadow ==
    /\ mode = "shadow"
    /\ probe.status = "ready"
    /\ probe' = [probe EXCEPT !.status = "done",
                              !.shadow = cast_shadow(probe.intersect, scene.light,
                                                     scene.objects)]
    /\ UNCHANGED <<mode, camera, camLog, shade, scene, stack, trace,
                 loop, workers, framebuffer>>

NextShadow == CastShadow

SpecShadow == InitShadow /\ [][NextShadow]_vars

\* The shadow ray of a hit record toward a light, and whether an object
\* stands on it nearer than the light.
ShadowDir(intersect, light) == VNormalized(VSub(light.position, intersect.point))

Blocks(object, intersect, light) ==
    /\ ray_intersect(object, offset_origin(intersect, ShadowDir(intersect, light)),
                     ShadowDir(intersect, light)).is_intersecting
    /\ FLt(ray_intersect(object, offset_origin(intersect, ShadowDir(intersect, light)),
                         ShadowDir(intersect, light)).distance,
           VLength(VSub(light.position, intersect.point)))

Reorderings(n) == { f \in [1..n -> 1..n] : \A i, j \in 1..n : f[i] = f[j] => i = j }

\* C3: cast_shadow returns 0.0 or 1.0; 1.0 exactly when some object of the
\* list, at any position, intersects the shadow ray nearer than the light;
\* every reordering of the list gives the same value.
C3_ShadowBinaryAnyOrder ==
    (mode = "shadow" /\ probe.status = "done") =>
        /\ probe.shadow \in {0, Scale}
        /\ probe.shadow = Scale <=>
              \E i \in 1..Len(scene.objects) :
                  Blocks(scene.objects[i], probe.intersect, scene.light)
        /\ \A f \in Reorderings(Len(scene.objects)) :
              cast_shadow(probe.intersect, scene.light,
                          [i \in 1..Len(scene.objects) |-> scene.objects[f[i]]])
                = probe.shadow

\* The light is occluded by the last object of a list whose first object
\* does not occlude it.
C3_Witness ==
    /\ mode = "shadow" /\ probe.status = "done"
    /\ probe.shadow = Scale
    /\ Len(scene.objects) >= 2
    /\ ~Blocks(scene.objects[1], probe.intersect, scene.light)
    /\ Blocks(scene.objects[Len(scene.objects)], probe.intersect, scene.light)

-----------------------------------------------------------------------------
(* cast_ray for one primary ray: the call stack, one frame per invocation *)

\* Glass: some reflection, mostly transmission, refractive index 1.5.
MatGlass == with_texture(Vec(6000, 7000, 8000), 50 * Scale, <<0, 5000, 1000, 8000>>, 15000, "g")

\* A full mirror.
MatMirror == with_texture(Vec(Scale, Scale, Scale), 50 * Scale, <<0, 0, Scale, 0>>, Scale, "m")

\* Four glass cubes around the origin, each inside the next.
SceneNest ==
    << CubeNew(VZero, 24000, MatGlass), CubeNew(VZero, 48000, MatGlass),
       CubeNew(VZero, 72000, MatGlass), CubeNew(VZero, 96000, MatGlass) >>

\* Two mirrored cubes facing each other across the origin.
SceneMirrors ==
    << CubeNew(Vec(0 - 3 * Scale, 0, 0), 2 * Scale, MatMirror),
       CubeNew(Vec(3 * Scale, 0, 0), 2 * Scale, MatMirror) >>

\* One opaque unit cube; one glass cube with an opaque cube behind it.
SceneWool == << CubeNew(VZero, Scale, MatWool) >>

SceneGlassWool ==
    << CubeNew(Vec(0, 0, 0 - 4 * Scale), 2 * Scale, MatWool),
       CubeNew(VZero, 24000, MatGlass) >>

\* main's glowstone: albedo[3] is 1.5 and the refractive index is 0.0.
MatGlow == with_texture(Vec(Scale, 8500, 4000), 5 * Scale, <<8000, 1000, 1000, 15000>>, 0, "G")

\* One glowstone cube of edge 2.
SceneGlow == << CubeNew(VZero, 2 * Scale, MatGlow) >>

\* A wool cube and a mirror cube in the same place.
SceneTwins == << CubeNew(VZero, 2 * Scale, MatWool), CubeNew(VZero, 2 * Scale, MatMirror) >>

CastScenes == { SceneNest, SceneMirrors, SceneWool, SceneGlassWool, SceneGlow, SceneTwins }

\* Primary rays: along +x, along -z, and along the exact unit vector
\* (0.6, 0.8, 0).
CastOrigins ==
    { VZero, Vec(0, 0 - Scale, 0), Vec(0, 0, 5 * Scale), Vec(2 * Scale, 0, 5 * Scale),
      Vec(Scale \div 2, 5 * Scale, 5 * Scale), Vec(Scale, 0, 0) }

CastDirections == { Vec(Scale, 0, 0), Vec(0, 0, 0 - Scale), Vec(6000, 8000, 0) }

\* The registry holds the wool texture; glass and mirror have none loaded.
CastImages == [k \in {"w"} |-> TexChecker]

\* main's light
CastLight ==
    LightNew(Vec(0 - 20 * Scale, 20 * Scale, 15 * Scale), Color(255, 255, 255, 255), 3 * Scale)

\* A cast_ray invocation that has just been entered.
Frame(origin, direction, depth) ==
    [origin |-> origin, direction |-> direction, depth |-> depth, pc |-> "enter",
     isects |-> <<>>, intersect |-> IntersectEmpty, shadow_origin |-> VZero,
     phong_color |-> VZero,
     reflect_color |-> VZero, refract_color |-> VZero, calls |-> 0]

InitCast ==
    /\ mode = "cast"
    /\ scene \in [objects : CastScenes, light : {CastLight}, images : {CastImages}]
    /\ stack \in { <<Frame(o, d, 0)>> : o \in CastOrigins, d \in CastDirections }
    /\ trace = [status |-> "running", calls |-> 1, result |-> VZero,
                last |-> [depth |-> 0, origin |-> VZero, direction |-> VZero,
                          isects |-> <<>>, calls |-> 0, value |-> VZero,
                          returned |-> FALSE]]
    /\ camera = Idle /\ camLog = Idle /\ probe = Idle /\ shade = Idle
    /\ loop = Idle /\ workers = Idle /\ framebuffer = Idle

Top == stack[Len(stack)]

\* The caller takes the returned color where it was waiting for it.
Resume(caller, value) ==
    IF caller.pc = "await_reflect"
    THEN [caller EXCEPT !.reflect_color = value, !.pc = "refract"]
    ELSE [caller EXCEPT !.refract_color = value, !.pc = "compose"]

\* return value; isects are the records the invocation computed.
Return(value, isects) ==
    /\ trace' = [trace EXCEPT
                   !.status = IF Len(stack) = 1 THEN "done" ELSE "running",
                   !.result = IF Len(stack) = 1 THEN value ELSE @,
                   !.last = [depth |-> Top.depth, origin |-> Top.origin,
                             direction |-> Top.direction, isects |-> isects,
                             calls |-> Top.calls, value |-> value, returned |-> TRUE]]
    /\ stack' = IF Len(stack) = 1 THEN <<>>
                ELSE Append(SubSeq(stack, 1, Len(stack) - 2),
                            Resume(stack[Len(stack) - 1], value))
    /\ UNCHANGED <<mode, camera, camLog, probe, shade, scene,
                 loop, workers, framebuffer>>

\* cast_ray(&origin, &direction, objects, light, tm, depth + 1)
Call(origin, direction, waiting) ==
    /\ stack' = Append([stack EXCEPT ![Len(stack)] =
                           [@ EXCEPT !.pc = waiting, !.calls = @ + 1]],
                       Frame(origin, direction, ChildDepth(Top.depth)))
    /\ trace' = [trace EXCEPT !.calls = @ + 1]
    /\ UNCHANGED <<mode, camera, camLog, probe, shade, scene,
                 loop, workers, framebuffer>>

\* if depth > 3 { return procedural_sky(*ray_direction); }
SkyAtDepthLimit ==
    /\ mode = "cast" /\ stack # <<>> /\ Top.pc = "enter"
    /\ DepthExceeded(Top.depth)
    /\ Return(procedural_sky(Top.direction), <<>>)

\* The loop over the objects leaves the empty record: return the sky.
ScanMiss ==
    /\ mode = "cast" /\ stack # <<>> /\ Top.pc = "enter"
    /\ ~DepthExceeded(Top.depth)
    /\ ~Nearest(Intersections(scene.objects, Top.origin, Top.direction)).is_intersecting
    /\ Return(procedural_sky(Top.direction),
              Intersections(scene.objects, Top.origin, Top.direction))

\* The frame after the loop found a record and its Phong color is computed.
Shaded(frame, isects, intersect) ==
    [frame EXCEPT !.pc = "reflect", !.isects = isects, !.intersect = intersect,
                  !.shadow_origin =
                      ShadowRayOrigin(intersect,
                                      VNormalized(VSub(scene.light.position,
                                                       intersect.point))),
                  !.phong_color = PhongColor(intersect, frame.origin, scene.objects,
                                             scene.light, scene.images)]

ShadedFrom(frame, isects) == Shaded(frame, isects, Nearest(isects))

\* The loop over the objects finds a nearest record; shadow, texture and
\* Phong color follow.
ScanHit ==
    /\ mode = "cast" /\ stack # <<>> /\ Top.pc = "enter"
    /\ ~DepthExceeded(Top.depth)
    /\ Nearest(Intersections(scene.objects, Top.origin, Top.direction)).is_intersecting
    /\ stack' = [stack EXCEPT ![Len(stack)] =
                    ShadedFrom(@, Intersections(scene.objects, Top.origin, Top.direction))]
    /\ UNCHANGED <<mode, camera, camLog, probe, shade, scene, trace,
                 loop, workers, framebuffer>>

\* The recursive call along dir from the biased hit point.
CallToward(intersect, dir, waiting) ==
    Call(offset_origin(intersect, dir), dir, waiting)

\* reflectivity > 0.0: the reflection ray is cast.
ReflectCall ==
    /\ mode = "cast" /\ stack # <<>> /\ Top.pc = "reflect"
    /\ Reflects(Top.intersect.material)
    /\ CallToward(Top.intersect, ReflectDir(Top.direction, Top.intersect), "await_reflect")

\* reflectivity <= 0.0: reflect_color is Vector3::zero().
ReflectSkip ==
    /\ mode = "cast" /\ stack # <<>> /\ Top.pc = "reflect"
    /\ ~Reflects(Top.intersect.material)
    /\ stack' = [stack EXCEPT ![Len(stack)] =
                    [@ EXCEPT !.reflect_color = VZero, !.pc = "refract"]]
    /\ UNCHANGED <<mode, camera, camLog, probe, shade, scene, trace,
                 loop, workers, framebuffer>>

\* transparency > 0.0 and refract gives Some(refract_dir): the refraction
\* ray is cast.
RefractCall ==
    /\ mode = "cast" /\ stack # <<>> /\ Top.pc = "refract"
    /\ Transmits(Top.intersect.material)
    /\ refract(Top.direction, Top.intersect.normal,
               Top.intersect.material.refractive_index) # None
    /\ CallToward(Top.intersect,
                  refract(Top.direction, Top.intersect.normal,
                          Top.intersect.material.refractive_index)[1],
                  "await_refract")

\* transparency > 0.0 and refract gives None: a reflection ray is cast in
\* place of the refraction ray.
RefractFallback ==
    /\ mode = "cast" /\ stack # <<>> /\ Top.pc = "refract"
    /\ Transmits(Top.intersect.material)
    /\ refract(Top.direction, Top.intersect.normal,
               Top.intersect.material.refractive_index) = None
    /\ CallToward(Top.intersect, ReflectDir(Top.direction, Top.intersect), "await_refract")

\* transparency <= 0.0: refract_color is Vector3::zero().
RefractSkip ==
    /\ mode = "cast" /\ stack # <<>> /\ Top.pc = "refract"
    /\ ~Transmits(Top.intersect.material)
    /\ stack' = [stack EXCEPT ![Len(stack)] =
                    [@ EXCEPT !.refract_color = VZero, !.pc = "compose"]]
    /\ UNCHANGED <<mode, camera, camLog, probe, shade, scene, trace,
                 loop, workers, framebuffer>>

\* The weighted sum of the three colors is returned.
Compose ==
    /\ mode = "cast" /\ stack # <<>> /\ Top.pc = "compose"
    /\ Return(Composite(Top.phong_color, Top.reflect_color, Top.refract_color,
                        Top.intersect.material.albedo[3],
                        Top.intersect.material.albedo[4]),
              Top.isects)

NextCast ==
    \/ SkyAtDepthLimit
    \/ ScanMiss
    \/ ScanHit
    \/ ReflectCall
    \/ ReflectSkip
    \/ RefractCall
    \/ RefractFallback
    \/ RefractSkip
    \/ Compose

SpecCast == InitCast /\ [][NextCast]_vars

-----------------------------------------------------------------------------
(* cast_ray properties *)

\* An invocation past the depth limit has neither looped over the objects
\* nor made a call.
Untouched(frame) == frame.pc = "enter" /\ frame.isects = <<>> /\ frame.calls = 0

DepthLimitSafe ==
    mode = "cast" =>
        /\ \A i \in 1..Len(stack) : stack[i].depth > 3 => Untouched(stack[i])
        /\ (trace.last.returned /\ trace.last.depth > 3) =>
              /\ trace.last.value = procedural_sky(trace.last.direction)
              /\ trace.last.isects = <<>>
              /\ trace.last.calls = 0

\* The most steps an invocation entered at this depth can take, its calls
\* included: one past the limit; else the loop, both branch steps, both
\* calls and the return.
RECURSIVE StepsOfCall(_)
StepsOfCall(depth) == IF depth > 3 THEN 1 ELSE 4 + 2 * StepsOfCall(depth + 1)

\* The most steps an invocation still has to take, given where it is.
StepsOfFrame(frame) ==
    CASE frame.pc = "enter" -> StepsOfCall(frame.depth)
      [] frame.pc = "reflect" -> StepsOfCall(frame.depth) - 1
      [] frame.pc = "await_reflect" -> 2 + StepsOfCall(frame.depth + 1)
      [] frame.pc = "refract" -> 2 + StepsOfCall(frame.depth + 1)
      [] frame.pc = "await_refract" -> 1
      [] frame.pc = "compose" -> 1

RECURSIVE StepsOfStack(_, _)
StepsOfStack(frames, i) ==
    IF i > Len(frames) THEN 0 ELSE StepsOfFrame(frames[i]) + StepsOfStack(frames, i + 1)

StepsLeft == IF mode = "cast" THEN StepsOfStack(stack, 1) ELSE 0

\* A primary call that has not returned has an invocation that is not
\* waiting on top of its stack: one of the steps of cast_ray is its next.
CanStep ==
    (mode = "cast" /\ trace.status = "running") =>
        /\ stack # <<>>
        /\ Top.pc \in {"enter", "reflect", "refract", "compose"}

\* C1: cast_ray terminates for every scene and material, two facing mirrors
\* included: an invocation with depth > 3 returns the sky color of its
\* direction without intersecting any object and without recursing; every
\* step lowers a count of steps left that is never negative, and a call that
\* has not returned can take a step.
C1_DepthLimitReturnsSkyAndTerminates ==
    /\ [](DepthLimitSafe /\ CanStep /\ StepsLeft >= 0)
    /\ [][StepsLeft' < StepsLeft]_vars

\* Between the two facing mirrors the ray bounces until the call at depth 4
\* returns the sky, and the primary call has returned.
C1_Witness ==
    /\ mode = "cast" /\ scene.objects = SceneMirrors
    /\ trace.status = "done" /\ trace.calls = 5
    /\ \E i \in 1..2 : trace.last.isects[i].is_intersecting

\* C2: one primary ray makes at most 31 cast_ray invocations and none has a
\* depth above 4: an invocation makes at most two calls, each one level
\* deeper than itself.
C2_AtMost31InvocationsDepth4 ==
    mode = "cast" =>
        /\ trace.calls <= 31
        /\ \A i \in 1..Len(stack) :
              /\ stack[i].depth <= 4
              /\ stack[i].calls <= 2
              /\ stack[i].depth = i - 1

\* Glass at every bounce: all 31 invocations are made.
C2_Witness ==
    /\ mode = "cast" /\ trace.status = "done" /\ trace.calls = 31
    /\ scene.objects = SceneNest

Axes == {"x", "y", "z"}

Along(v, axis) == IF axis = "x" THEN v.x ELSE IF axis = "y" THEN v.y ELSE v.z

\* The axes along which the ray moves.
Moving(d) == { a \in Axes : Z(Along(d, a)) # 0 }

\* The distances at which the ray is between the two planes of a moving
\* axis run from AxisNear to AxisFar; on an axis it does not move along it
\* is between the planes always or never.  The three intervals have no
\* distance in common.
SlabsDisjoint(cube, o, d) ==
    \/ \E a \in Axes \ Moving(d) :
          \/ Along(o, a) < Along(CubeMin(cube), a)
          \/ Along(o, a) > Along(CubeMax(cube), a)
    \/ \E a, b \in Moving(d) :
          AxisNear(Along(CubeMin(cube), a), Along(CubeMax(cube), a), Along(o, a), Along(d, a))
            > AxisFar(Along(CubeMin(cube), b), Along(CubeMax(cube), b), Along(o, b), Along(d, b))

\* The records of an invocation that has looped over the objects say no hit
\* at distance 0 for every object whose slab intervals are disjoint.
DisjointIsEmpty(origin, direction, isects) ==
    \A i \in 1..Len(isects) :
        SlabsDisjoint(scene.objects[i], origin, direction) =>
            ~isects[i].is_intersecting /\ isects[i].distance = 0

\* C9: a ray whose slab intervals on a box have no distance in common gets
\* the empty record (no hit, distance 0) from that box, and an invocation
\* whose every record says no hit returns the sky color of its direction.
C9_MissIsEmptyAndSky ==
    mode = "cast" =>
        /\ \A i \in 1..Len(stack) :
              DisjointIsEmpty(stack[i].origin, stack[i].direction, stack[i].isects)
        /\ trace.last.returned =>
              /\ DisjointIsEmpty(trace.last.origin, trace.last.direction, trace.last.isects)
              /\ (\A i \in 1..Len(trace.last.isects) : ~trace.last.isects[i].is_intersecting)
                    => trace.last.value = procedural_sky(trace.last.direction)

-----------------------------------------------------------------------------
(* render and the frame loop (main.rs) *)

MaxFrames == 2

\* The rayon worker threads that run the pixel closure.
NumThreads == 2

Threads == 1..NumThreads

NoTask == 0 - 1

\* Framebuffer::new(width, height): every pixel holds the background color,
\* none has been written, nothing has been presented.
FramebufferNew(width, height) ==
    [width |-> width, height |-> height,
     buffer |-> [i \in 0..(width * height - 1) |-> Color(0, 0, 0, 255)],
     writes |-> [i \in 0..(width * height - 1) |-> 0],
     current_color |-> Color(255, 255, 255, 255),
     shown |-> <<>>]

\* framebuffer.clear()
clear(fb) ==
    [fb EXCEPT !.buffer = [i \in DOMAIN fb.buffer |-> Color(0, 0, 0, 255)],
               !.writes = [i \in DOMAIN fb.writes |-> 0]]

\* framebuffer.set_current_color(color)
set_current_color(fb, color) == [fb EXCEPT !.current_color = color]

\* framebuffer.set_pixel(x, y): the pixel takes the current color.
set_pixel(fb, x, y) ==
    IF x < fb.width /\ y < fb.height
    THEN [fb EXCEPT !.buffer[y * fb.width + x] = fb.current_color,
                    !.writes[y * fb.width + x] = @ + 1]
    ELSE fb

\* framebuffer.swap_buffers(window, thread): the buffer is presented; the
\* camera it was rendered from is noted beside it.
swap_buffers(fb, cam) ==
    [fb EXCEPT !.shown = Append(@, [camera |-> cam, buffer |-> fb.buffer])]

FTan(a) == FDiv(FSin(a), FCos(a))

\* let fov = PI / 3.0; let perspective_scale = (fov * 0.5).tan();
PerspectiveScale == FTan(FMul(FDiv(PI, 3 * Scale), Scale \div 2))

\* let x = idx % width;
PixelX(idx, width) == idx % width

\* let y = idx / width;
PixelYOfColumn(idx, width) == idx % width
PixelY(idx, width) == idx \div width

\* The camera-space direction of the ray through pixel (x, y).
ScreenDirection(x, y, width_f, height_f) ==
    VNormalized(
        Vec(FMul(FMul(FSub(FDiv(FMul(2 * Scale, x * Scale), width_f), Scale),
                      FDiv(width_f, height_f)),
                 PerspectiveScale),
            FMul(FAdd(FDiv(FNeg(FMul(2 * Scale, y * Scale)), height_f), Scale),
                 PerspectiveScale),
            0 - Scale))

\* let rotated_direction = camera.basis_change(&ray_direction);
RotatedDirection(idx, width, height, cam) ==
    basis_change(cam, ScreenDirection(PixelX(idx, width), PixelY(idx, width),
                                      width * Scale, height * Scale))

\* The closure of the parallel map: index to (index, color).
RenderPixel(idx, width, height, cam, sc) ==
    CHOOSE pair \in
        { <<idx, vector3_to_color(cast_ray(cam.eye, d, sc.objects, sc.light, sc.images, 0))>> :
             d \in { RotatedDirection(idx, width, height, cam) } } : TRUE

\* No parallel map is running.
NoPass == [todo |-> {}, task |-> [t \in Threads |-> NoTask], pixels |-> <<>>,
           computed |-> <<>>]

\* (0..total).into_par_iter(): every index is still to be taken.
PassOver(total) ==
    [todo |-> 0..(total - 1), task |-> [t \in Threads |-> NoTask],
     pixels |-> [i \in 0..(total - 1) |-> None],
     computed |-> [i \in 0..(total - 1) |-> 0]]

\* collect() returns once every index has been taken and every task is done.
Collected(w) == w.todo = {} /\ \A t \in Threads : w.task[t] = NoTask

\* The statements of the loop body in program order.
LoopBodyRenderFirst ==
    <<"clear", "render", "left", "right", "up", "down", "equal", "minus", "swap">>
LoopBody ==
    <<"left", "right", "up", "down", "equal", "minus", "clear", "render", "swap">>

PlaceIn(body, pc) == CHOOSE i \in 1..Len(body) : body[i] = pc

\* The statement after pc; the loop condition follows the last one.
After(pc) ==
    IF PlaceIn(LoopBody, pc) = Len(LoopBody) THEN "poll"
    ELSE LoopBody[PlaceIn(LoopBody, pc) + 1]

\* The keys held down during one iteration.
KeySets == { {}, {"LEFT", "UP", "EQUAL"}, {"RIGHT", "DOWN", "MINUS"} }

\* One cube at the camera's center; the same with a second cube to its
\* left.
RenderWool ==
    << CubeNew(Vec(5 * Scale, 5 * Scale, 5 * Scale), 4 * Scale, MatWool) >>

RenderPair ==
    << CubeNew(Vec(5 * Scale, 5 * Scale, 5 * Scale), 4 * Scale, MatWool),
       CubeNew(Vec(0 - 10 * Scale, 5 * Scale, 2 * Scale), 4 * Scale, MatWool) >>

RenderScenes == { RenderWool, RenderPair }

InitFrame ==
    /\ mode = "frame"
    /\ camera = CameraNew(Vec(0, 15 * Scale, 30 * Scale),
                          Vec(5 * Scale, 5 * Scale, 5 * Scale), WORLD_UP)
    /\ scene \in [objects : RenderScenes, light : {CastLight}, images : {CastImages}]
    /\ loop = [pc |-> "poll", frame |-> 0, keys |-> {}, renders |-> 0, next |-> 0]
    /\ workers = NoPass
    /\ framebuffer = FramebufferNew(2, 2)
    /\ camLog = Idle /\ probe = Idle /\ shade = Idle /\ stack = <<>> /\ trace = Idle

\* while !window.window_should_close(): a new iteration starts with some
\* keys held down.
Poll ==
    /\ mode = "frame" /\ loop.pc = "poll" /\ loop.frame < MaxFrames
    /\ \E keys \in KeySets :
          loop' = [loop EXCEPT !.pc = LoopBody[1], !.frame = @ + 1, !.keys = keys,
                               !.renders = 0]
    /\ UNCHANGED <<mode, camera, camLog, probe, shade, scene, stack, trace, workers,
                   framebuffer>>

\* The statement at pc is done; the camera is left as it is.
KeySkip(pc) ==
    /\ camera' = camera
    /\ loop' = [loop EXCEPT !.pc = After(pc)]
    /\ UNCHANGED <<mode, camLog, probe, shade, scene, stack, trace, workers, framebuffer>>

\* if window.is_key_down(key) { camera.orbit(yaw, pitch); }
KeyOrbit(pc, key, yaw, pitch) ==
    /\ mode = "frame" /\ loop.pc = pc
    /\ IF key \in loop.keys
       THEN /\ camera' = orbit(camera, yaw, pitch)
            /\ loop' = [loop EXCEPT !.pc = After(pc)]
            /\ UNCHANGED <<mode, camLog, probe, shade, scene, stack, trace, workers,
                           framebuffer>>
       ELSE KeySkip(pc)

\* if window.is_key_down(key) { camera.zoom(factor); }
KeyZoom(pc, key, factor) ==
    /\ mode = "frame" /\ loop.pc = pc
    /\ IF key \in loop.keys
       THEN /\ camera' = zoom(camera, factor)
            /\ loop' = [loop EXCEPT !.pc = After(pc)]
            /\ UNCHANGED <<mode, camLog, probe, shade, scene, stack, trace, workers,
                           framebuffer>>
       ELSE KeySkip(pc)

KeyLeft == KeyOrbit("left", "LEFT", RotationSpeed, 0)

KeyRight == KeyOrbit("right", "RIGHT", 0 - RotationSpeed, 0)

KeyUp == KeyOrbit("up", "UP", 0, 0 - RotationSpeed)

KeyDown == KeyOrbit("down", "DOWN", 0, RotationSpeed)

KeyEqual == KeyZoom("equal", "EQUAL", 9500)

KeyMinus == KeyZoom("minus", "MINUS", 10500)

\* framebuffer.clear();
Clear ==
    /\ mode = "frame" /\ loop.pc = "clear"
    /\ framebuffer' = clear(framebuffer)
    /\ loop' = [loop EXCEPT !.pc = After("clear")]
    /\ UNCHANGED <<mode, camera, camLog, probe, shade, scene, stack, trace, workers>>

\* render is entered: the parallel map over 0..total starts.
RenderStart ==
    /\ mode = "frame" /\ loop.pc = "render"
    /\ workers' = PassOver(framebuffer.width * framebuffer.height)
    /\ loop' = [loop EXCEPT !.pc = "collect", !.renders = @ + 1]
    /\ UNCHANGED <<mode, camera, camLog, probe, shade, scene, stack, trace, framebuffer>>

\* A worker thread takes an index nobody has taken.
TakePixel ==
    /\ mode = "frame"
    /\ \E t \in Threads : \E idx \in workers.todo :
          /\ workers.task[t] = NoTask
          /\ workers' = [workers EXCEPT !.task[t] = idx, !.todo = @ \ {idx}]
    /\ UNCHANGED <<mode, camera, camLog, probe, shade, scene, stack, trace, loop,
                   framebuffer>>

\* The worker has run the closure on its index; the pair lands in the
\* index's place of the collected vector.
PixelDone(w, t, idx, pair) ==
    [w EXCEPT !.task[t] = NoTask, !.pixels[idx] = Some(pair), !.computed[idx] = @ + 1]

FinishPixel ==
    /\ mode = "frame"
    /\ \E t \in Threads :
          /\ workers.task[t] # NoTask
          /\ workers' = PixelDone(workers, t, workers.task[t],
                                  RenderPixel(workers.task[t], framebuffer.width,
                                              framebuffer.height, camera, scene))
    /\ UNCHANGED <<mode, camera, camLog, probe, shade, scene, stack, trace, loop,
                   framebuffer>>

\* collect() returns the vector; the loop over it starts.
Collect ==
    /\ mode = "frame" /\ loop.pc = "collect"
    /\ Collected(workers)
    /\ loop' = [loop EXCEPT !.pc = "write", !.next = 0]
    /\ UNCHANGED <<mode, camera, camLog, probe, shade, scene, stack, trace, workers,
                   framebuffer>>

\* One turn of for (idx, pixel_color) in pixels.
WritePixel ==
    /\ mode = "frame" /\ loop.pc = "write"
    /\ loop.next < framebuffer.width * framebuffer.height
    /\ framebuffer' =
          set_pixel(set_current_color(framebuffer, workers.pixels[loop.next][1][2]),
                    PixelX(workers.pixels[loop.next][1][1], framebuffer.width),
                    PixelY(workers.pixels[loop.next][1][1], framebuffer.width))
    /\ loop' = [loop EXCEPT !.next = @ + 1]
    /\ UNCHANGED <<mode, camera, camLog, probe, shade, scene, stack, trace, workers>>

\* The loop over the pixels is over and render returns.
RenderReturn ==
    /\ mode = "frame" /\ loop.pc = "write"
    /\ loop.next = framebuffer.width * framebuffer.height
    /\ workers' = NoPass
    /\ loop' = [loop EXCEPT !.pc = After("render")]
    /\ UNCHANGED <<mode, camera, camLog, probe, shade, scene, stack, trace, framebuffer>>

\* framebuffer.swap_buffers(&mut window, &thread);
Swap ==
    /\ mode = "frame" /\ loop.pc = "swap"
    /\ framebuffer' = swap_buffers(framebuffer, camera)
    /\ loop' = [loop EXCEPT !.pc = After("swap")]
    /\ UNCHANGED <<mode, camera, camLog, probe, shade, scene, stack, trace, workers>>

NextFrame ==
    \/ Poll
    \/ KeyLeft
    \/ KeyRight
    \/ KeyUp
    \/ KeyDown
    \/ KeyEqual
    \/ KeyMinus
    \/ Clear
    \/ RenderStart
    \/ TakePixel
    \/ FinishPixel
    \/ Collect
    \/ WritePixel
    \/ RenderReturn
    \/ Swap

SpecFrame == InitFrame /\ [][NextFrame]_vars

-----------------------------------------------------------------------------
(* render and frame loop properties *)

Pixels == 0..(framebuffer.width * framebuffer.height - 1)

\* The color render's closure gives the index under the camera and scene
\* as they are now.
ColorNow(idx) ==
    RenderPixel(idx, framebuffer.width, framebuffer.height, camera, scene)[2]

\* While the parallel map runs: an index is waiting, or with one thread, or
\* computed, never two of these; the closure has run once on a computed
\* index and never on another; nothing has been written.
MapExactlyOnce ==
    loop.pc = "collect" =>
        /\ \A idx \in Pixels :
              /\ workers.computed[idx] =
                    (IF idx \in workers.todo \/ \E t \in Threads : workers.task[t] = idx
                     THEN 0 ELSE 1)
              /\ ~(idx \in workers.todo /\ \E t \in Threads : workers.task[t] = idx)
              /\ (workers.pixels[idx] # None) = (workers.computed[idx] = 1)
              /\ framebuffer.writes[idx] = 0
        /\ \A t, u \in Threads :
              (t # u /\ workers.task[t] # NoTask) => workers.task[t] # workers.task[u]

\* After the join every index has been computed once and its pair holds
\* its own index and the color of that index; the loop has written the
\* first pixels once each and the others not yet.
WriteExactlyOnce ==
    loop.pc = "write" =>
        \A idx \in Pixels :
            /\ workers.computed[idx] = 1
            /\ workers.pixels[idx] = Some(<<idx, ColorNow(idx)>>)
            /\ framebuffer.writes[idx] = (IF idx < loop.next THEN 1 ELSE 0)

\* When render has returned every pixel has been written once and holds the
\* color of its index.
RenderedOnce ==
    loop.pc = "swap" =>
        \A idx \in Pixels :
            framebuffer.writes[idx] = 1 /\ framebuffer.buffer[idx] = ColorNow(idx)

\* Two presented frames rendered from the same camera are the same.
SameSceneSameFrame ==
    \A i, j \in 1..Len(framebuffer.shown) :
        framebuffer.shown[i].camera = framebuffer.shown[j].camera
            => framebuffer.shown[i].buffer = framebuffer.shown[j].buffer

\* C11: under every interleaving of the pixel workers each index is
\* computed exactly once, its color is the one its index has under the
\* read-only camera and scene, each pixel is written exactly once after the
\* join, and two renders of the same scene give identical framebuffers.
C11_RenderDeterministic ==
    mode = "frame" =>
        MapExactlyOnce /\ WriteExactlyOnce /\ RenderedOnce /\ SameSceneSameFrame

\* Two frames have been presented from the same camera, and the cube in the
\* middle shows in them.
C11_Witness ==
    /\ mode = "frame" /\ Len(framebuffer.shown) = 2
    /\ framebuffer.shown[1].camera = framebuffer.shown[2].camera
    /\ framebuffer.shown[2].buffer[3] # framebuffer.shown[2].buffer[0]

\* A render pass is in flight: render has been entered and has not returned.
InFlight ==
    \/ loop.pc \in {"collect", "write"}
    \/ workers.todo # {}
    \/ \E t \in Threads : workers.task[t] # NoTask

KeyPlaces == {"left", "right", "up", "down", "equal", "minus"}

\* C12: the camera changes only in a key handler, before the iteration's
\* render has started and with no pass in flight; no step of a pass in
\* flight changes it; an iteration that reaches the swap, and one that ends,
\* has run exactly one render.
C12_CameraMovesOnlyBetweenRenders ==
    [][mode = "frame" =>
          /\ (camera' # camera) =>
                (loop.pc \in KeyPlaces /\ loop.renders = 0 /\ ~InFlight)
          /\ InFlight => camera' = camera
          /\ loop'.renders <= 1
          /\ (loop'.pc \in {"swap", "poll"} /\ loop'.frame > 0) => loop'.renders = 1]_vars

\* A second iteration has moved the camera and then rendered once.
C12_Witness ==
    /\ mode = "frame" /\ loop.frame = 2 /\ loop.pc = "swap" /\ loop.renders = 1
    /\ Len(framebuffer.shown) = 1
    /\ framebuffer.shown[1].camera # camera

-----------------------------------------------------------------------------
(* the recursive calls of cast_ray *)

\* The step pushes one invocation, one level deeper than its caller, and
\* leaves the caller waiting at the place named.
PushesChild(waiting) ==
    /\ Len(stack') = Len(stack) + 1
    /\ stack'[Len(stack')].depth = Top.depth + 1
    /\ stack'[Len(stack')].pc = "enter"
    /\ stack'[Len(stack)].pc = waiting
    /\ stack'[Len(stack)].calls = Top.calls + 1

\* The step makes no call: the caller goes on with a zero color.
SkipsChild(field, place) ==
    /\ Len(stack') = Len(stack)
    /\ stack'[Len(stack)].pc = place
    /\ stack'[Len(stack)][field] = VZero
    /\ stack'[Len(stack)].calls = Top.calls

\* The invocation at the top of the stack shades a record whose material
\* reflects nothing and transmits nothing.
TopIsOpaque ==
    /\ ~FGt(Top.intersect.material.albedo[3], 0)
    /\ ~FGt(Top.intersect.material.albedo[4], 0)

\* The Phong color of the record nearest among isects, weighted by
\* 1 - albedo[2] - albedo[3] of its material.
WeightedPhong(isects, ray_origin) ==
    VScale(PhongColor(Nearest(isects), ray_origin, scene.objects, scene.light, scene.images),
           FSub(FSub(Scale, Nearest(isects).material.albedo[3]),
                Nearest(isects).material.albedo[4]))

\* C13: at a hit, cast_ray makes the reflection call if and only if the
\* material's albedo[2] is above zero and the refraction-branch call if
\* and only if its albedo[3] is above zero, each one level deeper; no other
\* place of cast_ray makes a call; and a hit on a material with both at or
\* below zero returns, without having made a call, its Phong color weighted
\* by 1 - albedo[2] - albedo[3].
C13_CallsFollowAlbedo ==
    [][(mode = "cast" /\ stack # <<>>) =>
          /\ Top.pc = "reflect" =>
                IF FGt(Top.intersect.material.albedo[3], 0)
                THEN PushesChild("await_reflect")
                ELSE SkipsChild("reflect_color", "refract")
          /\ Top.pc = "refract" =>
                IF FGt(Top.intersect.material.albedo[4], 0)
                THEN PushesChild("await_refract")
                ELSE SkipsChild("refract_color", "compose")
          /\ Top.pc \notin {"reflect", "refract"} => Len(stack') <= Len(stack)
          /\ (Top.pc = "compose" /\ TopIsOpaque) =>
                /\ Top.calls = 0
                /\ trace'.last.returned /\ trace'.last.calls = 0
                /\ trace'.last.value = WeightedPhong(Top.isects, Top.origin)]_vars

\* A glass hit has made both calls, and the invocation of its second call,
\* one level deeper, has returned from a hit on wool without making a call.
C13_Witness ==
    /\ mode = "cast" /\ Len(stack) = 1
    /\ Top.pc = "compose" /\ Top.calls = 2
    /\ FGt(Top.intersect.material.albedo[3], 0)
    /\ FGt(Top.intersect.material.albedo[4], 0)
    /\ trace.last.returned /\ trace.last.depth = 1 /\ trace.last.calls = 0
    /\ Nearest(trace.last.isects).is_intersecting
    /\ ~FGt(Nearest(trace.last.isects).material.albedo[3], 0)
    /\ ~FGt(Nearest(trace.last.isects).material.albedo[4], 0)
    /\ trace.last.value = WeightedPhong(trace.last.isects, trace.last.origin)
    /\ trace.last.value # VZero

\* Snell's law as refract applies it. The ray leaves the medium when
\* incident . normal > 0: the ratio of the indices is then n / 1 in place of
\* 1 / n and the normal is negated.
SnellLeaves(incident, normal) == FGt(VDot(incident, normal), 0)

SnellRatio(incident, normal, index) ==
    IF SnellLeaves(incident, normal) THEN FDiv(index, Scale) ELSE FDiv(Scale, index)

SnellNormal(incident, normal) ==
    IF SnellLeaves(incident, normal) THEN VNeg(normal) ELSE normal

\* The cosine of the angle of incidence, within [0, 1].
SnellCos(incident, normal) ==
    IF SnellLeaves(incident, normal)
    THEN FMin(VDot(incident, normal), Scale)
    ELSE FNeg(FMax(VDot(incident, normal), 0 - Scale))

\* k = 1 - eta^2 (1 - cos^2)
SnellK(incident, normal, index) ==
    FSub(Scale,
         FMul(FMul(SnellRatio(incident, normal, index), SnellRatio(incident, normal, index)),
              FSub(Scale, FMul(SnellCos(incident, normal), SnellCos(incident, normal)))))

\* incident * eta + n * (eta * cos - sqrt(k))
SnellDirection(incident, normal, index) ==
    VAdd(VScale(incident, SnellRatio(incident, normal, index)),
         VScale(SnellNormal(incident, normal),
                FSub(FMul(SnellRatio(incident, normal, index), SnellCos(incident, normal)),
                     FSqrt(SnellK(incident, normal, index)))))

\* k of the record the invocation at the top of the stack shades.
TopK == SnellK(Top.direction, Top.intersect.normal, Top.intersect.material.refractive_index)

\* The invocation at the top of the stack is at its transparency test, and
\* the test succeeds.
AtRefractBranch ==
    /\ mode = "cast" /\ stack # <<>> /\ Top.pc = "refract"
    /\ FGt(Top.intersect.material.albedo[4], 0)

\* C14: in the refraction branch, total internal reflection (k < 0) makes
\* exactly one recursive call, along the normalized mirror direction; with
\* k >= 0 the one call goes along the refracted direction, computed with
\* the ratio of the indices swapped and the normal negated when
\* incident . normal > 0.
C14_RefractionBranchDirection ==
    [][AtRefractBranch =>
          /\ PushesChild("await_refract")
          /\ FLt(TopK, 0) =>
                stack'[Len(stack')].direction =
                    VNormalized(reflect(Top.direction, Top.intersect.normal))
          /\ (TopK # NaN /\ ~FLt(TopK, 0)) =>
                stack'[Len(stack')].direction =
                    SnellDirection(Top.direction, Top.intersect.normal,
                                   Top.intersect.material.refractive_index)]_vars

\* The stack holds a glass hit that waits for the call its refraction branch
\* made after total internal reflection, and below it a glass hit that waits
\* for a call along the refracted direction of a ray leaving the glass.
TirCallAt(i) ==
    /\ stack[i].pc = "await_refract"
    /\ FLt(SnellK(stack[i].direction, stack[i].intersect.normal,
                  stack[i].intersect.material.refractive_index), 0)
    /\ stack[i + 1].direction =
          VNormalized(reflect(stack[i].direction, stack[i].intersect.normal))

LeavingCallAt(i) ==
    /\ stack[i].pc = "await_refract"
    /\ SnellLeaves(stack[i].direction, stack[i].intersect.normal)
    /\ ~FLt(SnellK(stack[i].direction, stack[i].intersect.normal,
                   stack[i].intersect.material.refractive_index), 0)
    /\ stack[i + 1].direction =
          SnellDirection(stack[i].direction, stack[i].intersect.normal,
                         stack[i].intersect.material.refractive_index)
    /\ stack[i + 1].direction # stack[i].direction

C14_Witness ==
    /\ mode = "cast" /\ Len(stack) >= 3
    /\ \E i \in 1..(Len(stack) - 1) : TirCallAt(i)
    /\ \E i \in 1..(Len(stack) - 1) : LeavingCallAt(i)

-----------------------------------------------------------------------------
(* the origins of the secondary rays *)

\* The point displaced by 1e-4 along the normal, on the side the direction
\* points to.
Displaced(point, normal, direction) ==
    IF FLt(VDot(direction, normal), 0)
    THEN VSub(point, VScale(normal, Scale \div 10000))
    ELSE VAdd(point, VScale(normal, Scale \div 10000))

\* The invocation has found its record: it is past the loop over the objects.
HasHit(frame) == frame.pc # "enter"

\* The direction of the shadow ray of the record.
TowardLight(intersect) == VNormalized(VSub(scene.light.position, intersect.point))

\* C15: the shadow ray of every shaded hit, and the ray of every recursive
\* call made at a hit (reflection, refraction and the reflection made in
\* place of a refraction), starts at the hit point displaced by 1e-4 along
\* the normal, against it when direction . normal < 0 and along it
\* otherwise; none starts at the hit point itself.
C15_SecondaryRaysStartOffTheSurface ==
    mode = "cast" =>
        /\ \A i \in 1..Len(stack) :
              HasHit(stack[i]) =>
                  /\ stack[i].shadow_origin =
                        Displaced(stack[i].intersect.point, stack[i].intersect.normal,
                                  TowardLight(stack[i].intersect))
                  /\ stack[i].shadow_origin # stack[i].intersect.point
        /\ \A i \in 1..(Len(stack) - 1) :
              /\ HasHit(stack[i])
              /\ stack[i + 1].origin =
                    Displaced(stack[i].intersect.point, stack[i].intersect.normal,
                              stack[i + 1].direction)
              /\ stack[i + 1].origin # stack[i].intersect.point

\* The refraction ray of a glass hit starts below the surface, its shadow
\* ray above it, and the ray refracted out of the glass starts outside.
C15_Witness ==
    /\ mode = "cast" /\ Len(stack) = 3
    /\ stack[1].pc = "await_refract" /\ stack[2].pc = "await_refract"
    /\ FLt(VDot(stack[2].direction, stack[1].intersect.normal), 0)
    /\ stack[2].origin = VSub(stack[1].intersect.point,
                              VScale(stack[1].intersect.normal, Scale \div 10000))
    /\ ~FLt(VDot(TowardLight(stack[1].intersect), stack[1].intersect.normal), 0)
    /\ stack[1].shadow_origin = VAdd(stack[1].intersect.point,
                                     VScale(stack[1].intersect.normal, Scale \div 10000))
    /\ ~FLt(VDot(stack[3].direction, stack[2].intersect.normal), 0)
    /\ stack[3].origin = VAdd(stack[2].intersect.point,
                              VScale(stack[2].intersect.normal, Scale \div 10000))

-----------------------------------------------------------------------------
(* the nearest-hit scan of cast_ray *)

\* a <= b as f32 compares
AtMost(a, b) == a # NaN /\ b # NaN /\ Z(a) <= Z(b)

\* Record k of isects intersects, no intersecting record is nearer, and no
\* earlier intersecting record is as near.
NearestAt(isects, k) ==
    /\ isects[k].is_intersecting
    /\ \A j \in 1..Len(isects) :
          isects[j].is_intersecting => AtMost(isects[k].distance, isects[j].distance)
    /\ \A j \in 1..(k - 1) :
          isects[j].is_intersecting => isects[j].distance # isects[k].distance

\* The records of the objects for the ray of the invocation at the top of
\* the stack.
TopRecords == Intersections(scene.objects, Top.origin, Top.direction)

\* The step shades a record.
Shades == Len(stack') = Len(stack) /\ stack'[Len(stack)].pc = "reflect"

\* C17: the record cast_ray shades is that of an intersecting object, at a
\* distance less than or equal to that of every intersecting object, and
\* the earliest such in the list; an object that intersects at distance 0
\* makes the invocation shade a record.
C17_ShadesNearestEarliest ==
    [][(mode = "cast" /\ stack # <<>> /\ Top.pc = "enter" /\ Top.depth <= 3) =>
          /\ Shades =>
                \E k \in 1..Len(TopRecords) :
                    /\ NearestAt(TopRecords, k)
                    /\ stack'[Len(stack)].intersect = TopRecords[k]
          /\ (\E j \in 1..Len(TopRecords) :
                  TopRecords[j].is_intersecting /\ TopRecords[j].distance = 0) =>
                Shades /\ stack'[Len(stack)].intersect.distance = 0]_vars

-----------------------------------------------------------------------------
(* the records of Cube::ray_intersect *)

\* The outward unit normal of a face of an axis-aligned box.
OutwardNormal(face) ==
    CASE face = "Left" -> Vec(0 - Scale, 0, 0) [] face = "Right" -> Vec(Scale, 0, 0)
      [] face = "Bottom" -> Vec(0, 0 - Scale, 0) [] face = "Top" -> Vec(0, Scale, 0)
      [] face = "Back" -> Vec(0, 0, 0 - Scale) [] face = "Front" -> Vec(0, 0, Scale)

\* lo <= x <= hi as f32 compares
Within(x, lo, hi) == AtMost(lo, x) /\ AtMost(x, hi)

\* The point is in the closed box and on the plane of one of its faces.
OnBoundary(cube, point) ==
    /\ Within(point.x, CubeMin(cube).x, CubeMax(cube).x)
    /\ Within(point.y, CubeMin(cube).y, CubeMax(cube).y)
    /\ Within(point.z, CubeMin(cube).z, CubeMax(cube).z)
    /\ \E f \in CubeFace :
          PointCoord(f, point) = PlaneCoord(f, CubeMin(cube), CubeMax(cube))

\* The probe has run.
Probed == mode = "cube" /\ probe.status = "done"

\* C16: a record of ray_intersect with hit = true has a distance >= 0, the
\* outward unit normal of the face it reports, a point on the boundary of
\* the box, u and v in [0, 1] and the material of the cube; a record with
\* hit = false is the empty record, whose distance is 0.
C16_RecordsWellFormed ==
    Probed =>
        IF probe.result.is_intersecting
        THEN /\ AtMost(0, probe.result.distance)
             /\ probe.result.face \in CubeFace
             /\ probe.result.normal = OutwardNormal(probe.result.face)
             /\ OnBoundary(probe.cube, probe.result.point)
             /\ Within(probe.result.u, 0, Scale)
             /\ Within(probe.result.v, 0, Scale)
             /\ probe.result.material = probe.cube.material
        ELSE /\ probe.result = IntersectEmpty
             /\ probe.result.distance = 0

\* The origin is outside the extent of the box on an axis the ray does not
\* move along.
OutsideOnStillAxis(cube, o, d) ==
    \E a \in Axes \ Moving(d) :
        \/ Along(o, a) < Along(CubeMin(cube), a)
        \/ Along(o, a) > Along(CubeMax(cube), a)

\* The point of the ray at distance t, along one axis.
RayAt(o, d, t, a) == Along(o, a) + (Along(d, a) * t) \div Scale

\* The distances at which the ray is on the plane of a face, and 0: if the
\* ray touches the box at all, it does so at one of these.
PlaneCrossings(cube, o, d) ==
    {0} \cup { ((Along(plane, a) - Along(o, a)) * Scale) \div Along(d, a) :
                  a \in Moving(d), plane \in {CubeMin(cube), CubeMax(cube)} }

\* Some point of the ray, at a distance >= 0, is in the closed box.
TouchesBox(cube, o, d) ==
    \E t \in PlaneCrossings(cube, o, d) :
        /\ t >= 0
        /\ \A a \in Axes :
              /\ Along(CubeMin(cube), a) <= RayAt(o, d, t, a)
              /\ RayAt(o, d, t, a) <= Along(CubeMax(cube), a)

\* C18: a ray with a direction component exactly zero on an axis on which
\* its origin is outside the extent of the box gets no hit, and no ray that
\* does not touch the box gets a hit, whatever infinities and NaNs its plane
\* distances are.
C18_ZeroComponentNeverFalseHit ==
    Probed =>
        /\ OutsideOnStillAxis(probe.cube, probe.origin, probe.direction) =>
              ~probe.result.is_intersecting
        /\ ~TouchesBox(probe.cube, probe.origin, probe.direction) =>
              ~probe.result.is_intersecting

=============================================================================
